---- MODULE Spec2Model ----
(***************************************************************************)
(* Verification model of the Slack/Linear bot.                             *)
(*                                                                         *)
(*   Part I   TaskPipeline (src/src/utils.ts, src/src/llmquery.ts):        *)
(*            addNode, determineExecutionOrder, execute.                   *)
(*   Part II  The conversation handlers of src/src/app.ts: the message     *)
(*            handler, the button handlers, analyzeMessageContent,         *)
(*            executeLinearSearch and the cached MCP connection.           *)
(*                                                                         *)
(*   Part III The pipeline entry point processMessageWithLLM and the node  *)
(*            library of src/src/utils.ts.                                 *)
(*                                                                         *)
(* Each part has its own specification (SpecPipeline, SpecSession,         *)
(* SpecEntry); the variables of the other parts stay at their initial      *)
(* values.                                                                 *)
(***************************************************************************)
EXTENDS Integers, Sequences, FiniteSets, TLC

None == "none"

\* The absence of an error (errors are records).
NoErr == [kind |-> "none"]

(***************************************************************************)
(* State                                                                   *)
(***************************************************************************)

\* TaskPipeline (one pipeline, from construction to the end of execute)
VARIABLES
    pNodes,     \* this.nodes: the own properties, in Object.keys order, each [id, deps]
    pPhase,     \* "building" | "running" | "returned" | "threw"
    pOrder,     \* executionOrder computed at the start of execute
    pIdx,       \* position in pOrder of the next node to execute
    pResults,   \* context.results, in insertion order: sequence of [id, value]
    pInvoked,   \* ids whose execute function has been invoked, in order
    pFailedAt,  \* position of the node whose execute threw, or 0
    pNodeErr,   \* the error that node raised, or NoErr
    pThrown     \* the error execute() propagated to its caller, or NoErr

pipeVars == <<pNodes, pPhase, pOrder, pIdx, pResults, pInvoked, pFailedAt, pNodeErr, pThrown>>

\* The bot process
VARIABLES
    analysisThreads,   \* Map threadTs -> [channelId] (displayTime is never read)
    noResultsThreads,  \* Map threadTs -> [channelId, originalQuery, analysisData]
    resultsThreads,    \* Map threadTs -> [channelId, originalQuery, analysisData]
    userStates,        \* Map <<userId, channelId>> -> [isInEditMode, channelId, threadTs, originalMessageText]
    isConnected,       \* mcp_client: the connected flag
    mcpClient,         \* mcp_client: the cached handle, <<>> (null) or <<handle>>
    bootPc,            \* the initializeMcpClient() call made at module load
    cards,             \* per thread, the button cards posted in it and the edit
                       \* prompt that waits for the user's next message (Slack's side)
    handlers,          \* the handler invocations in flight, per slot
    evCount,           \* events that started a transition so far
    overlaps           \* events dispatched while another handler was in flight

sessVars == <<analysisThreads, noResultsThreads, resultsThreads, userStates,
              isConnected, mcpClient, bootPc, cards, handlers, evCount, overlaps>>

\* One call of processMessageWithLLM
VARIABLES
    rPc,       \* where the call is: "idle", "prompt", a node's await, "returned"
    rText,     \* text
    rFiles,    \* files: the list of file locators
    rTools,    \* availableTools
    rOrder,    \* executionOrder of the pipeline it builds
    rIdx,      \* position in rOrder of the node that runs next
    rFetched,  \* ImageIngestion: per file handled so far, whether its download succeeded
    rImages,   \* ImageIngestion: imageContents
    rResults,  \* context.results: list of [key, value] in insertion order
    rInputs,   \* context.inputs: list of [key, value]
    rRemote,   \* the remote calls TicketSearch made: "getMcpClient", "callTool"
    rFailed,   \* the steps that threw or failed: "prompt", "query", "search", "rate", ...
    rReturn,   \* what processMessageWithLLM returned, NullValue before
    rResponse, \* the answer of the inference request the running node awaited
    rLog       \* what the nodes did, in order: reads of context.results,
               \* inference requests sent, sayFn calls

runVars == <<rPc, rText, rFiles, rTools, rOrder, rIdx, rFetched, rImages, rResults,
             rInputs, rRemote, rFailed, rReturn, rResponse, rLog>>

vars == <<pipeVars, sessVars, runVars>>

(***************************************************************************)
(* Part I: TaskPipeline                                                    *)
(***************************************************************************)

\* Ids a caller registers nodes under.
NodeIds == {"a", "b", "c"}

\* A property every plain object inherits from Object.prototype: this.nodes
\* is created as {} (utils.ts:107), so this.nodes["constructor"] is a
\* (truthy) function even when no node of that id was added.
ProtoKeys == {"constructor"}

\* Ids a dependency list may mention: registered ids, an id nobody registers,
\* and an inherited property name.
DepIds == NodeIds \cup {"zz"} \cup ProtoKeys

\* Longest dependency list of a node.
MaxDeps == 2

\* The position of an id in the order dependency lists are written in.
IdRank(id) ==
    CASE id = "a" -> 1 [] id = "b" -> 2 [] id = "c" -> 3
      [] id = "zz" -> 4 [] OTHER -> 5

\* Dependency lists: sequences over DepIds of length <= MaxDeps, without
\* duplicates, written in ascending id order.
DepLists ==
    {s \in UNION {[1..n -> DepIds] : n \in 0..MaxDeps} :
        \A i, j \in 1..Len(s) : i < j => IdRank(s[i]) < IdRank(s[j])}

SeqToSet(s) == {s[i] : i \in 1..Len(s)}

\* Own keys of this.nodes (Object.keys(this.nodes)).
RegisteredIds(nodes) == {nodes[i].id : i \in 1..Len(nodes)}

IndexOfId(nodes, id) == CHOOSE i \in 1..Len(nodes) : nodes[i].id = id

\* node.dependencies of the value this.nodes[id]: a registered node's list;
\* the inherited function has no "dependencies" property.
DepsOf(nodes, id) ==
    IF id \in RegisteredIds(nodes) THEN nodes[IndexOfId(nodes, id)].deps ELSE <<>>

\* !!this.nodes[id]: an own node object, or an inherited property.
Truthy(nodes, id) == id \in RegisteredIds(nodes) \/ id \in ProtoKeys

\* addNode: this.nodes[node.id] = node. A new key is appended to the key
\* order; assigning an existing key keeps its position.
AddNodeTo(nodes, id, deps) ==
    IF id \in RegisteredIds(nodes)
    THEN [nodes EXCEPT ![IndexOfId(nodes, id)] = [id |-> id, deps |-> deps]]
    ELSE Append(nodes, [id |-> id, deps |-> deps])

\* The error thrown for a dependency that is not found.
DependencyError(depId, nodeId) ==
    [kind |-> "DependencyNotFound", dep |-> depId, node |-> nodeId]

\* (mutant of PlaceNode: the id is pushed before the ids its dependencies
\* added, as if executionOrder.push came before the loop)
PlaceNodeFirst(before, after, nodeId) ==
    SubSeq(after, 1, Len(before)) \o <<nodeId>> \o SubSeq(after, Len(before) + 1, Len(after))

\* executionOrder.push(nodeId) at the end of visit: `before` is the order
\* when visit(nodeId) was entered, `after` the order once its dependencies
\* were visited.
PlaceNode(before, after, nodeId) == Append(after, nodeId)

RECURSIVE Visit(_, _, _), VisitDeps(_, _, _, _, _)

\* The for-loop over node.dependencies inside visit(nodeId), from index i.
\* st = [visited, order, err]; err # NoErr means an exception is propagating.
VisitDeps(nodes, st, nodeId, deps, i) ==
    IF st.err # NoErr \/ i > Len(deps) THEN st
    ELSE IF ~Truthy(nodes, deps[i])
         THEN [st EXCEPT !.err = DependencyError(deps[i], nodeId)]
         ELSE VisitDeps(nodes, Visit(nodes, st, deps[i]), nodeId, deps, i + 1)

\* visit(nodeId) of determineExecutionOrder.
Visit(nodes, st, nodeId) ==
    IF st.err # NoErr \/ nodeId \in st.visited THEN st
    ELSE LET st1 == [st EXCEPT !.visited = @ \cup {nodeId}]
             st2 == VisitDeps(nodes, st1, nodeId, DepsOf(nodes, nodeId), 1)
         IN  IF st2.err # NoErr THEN st2
             ELSE [st2 EXCEPT !.order = PlaceNode(st.order, @, nodeId)]

RECURSIVE VisitAllFresh(_, _, _)
\* (mutant: the visited set is made anew for every key)
VisitAllFresh(nodes, st, i) ==
    IF i > Len(nodes) THEN st
    ELSE VisitAllFresh(nodes, Visit(nodes, [st EXCEPT !.visited = {}], nodes[i].id), i + 1)

RECURSIVE VisitAll(_, _, _)
\* Object.keys(this.nodes).forEach(visit)
VisitAll(nodes, st, i) ==
    IF i > Len(nodes) THEN st
    ELSE VisitAll(nodes, Visit(nodes, st, nodes[i].id), i + 1)

\* determineExecutionOrder(): [order, err]; err # NoErr when it throws.
DetermineExecutionOrder(nodes) ==
    VisitAll(nodes, [visited |-> {}, order |-> <<>>, err |-> NoErr], 1)

\* The error a node's execute function raises, and the value it returns.
NodeError(id) == [kind |-> "NodeFailure", node |-> id]
NodeResult(id) == [kind |-> "result", node |-> id]
\* Calling node.execute when this.nodes[id] is the inherited function, which
\* has no execute property.
NotAFunction(id) == [kind |-> "TypeError", node |-> id]

PipelineInit ==
    /\ pNodes = <<>>
    /\ pPhase = "building"
    /\ pOrder = <<>>
    /\ pIdx = 1
    /\ pResults = <<>>
    /\ pInvoked = <<>>
    /\ pFailedAt = 0
    /\ pNodeErr = NoErr
    /\ pThrown = NoErr

\* pipeline.addNode(node). The callers give each node of a pipeline its own
\* id, so the ids drawn are fresh ones.
AddNode ==
    /\ pPhase = "building"
    /\ \E id \in NodeIds \ RegisteredIds(pNodes), deps \in DepLists :
          pNodes' = AddNodeTo(pNodes, id, deps)
    /\ UNCHANGED <<pPhase, pOrder, pIdx, pResults, pInvoked, pFailedAt, pNodeErr, pThrown>>
    /\ UNCHANGED <<sessVars, runVars>>

\* execute(), up to its first await: the context is created and the order
\* is determined; a throw of determineExecutionOrder rejects the promise.
ExecuteStart ==
    /\ pPhase = "building"
    /\ LET r == DetermineExecutionOrder(pNodes)
       IN  IF r.err # NoErr
           THEN /\ pPhase' = "threw"
                /\ pThrown' = r.err
                /\ pOrder' = <<>>
           ELSE /\ pPhase' = IF r.order = <<>> THEN "returned" ELSE "running"
                /\ pThrown' = NoErr
                /\ pOrder' = r.order
    /\ UNCHANGED <<pNodes, pIdx, pResults, pInvoked, pFailedAt, pNodeErr>>
    /\ UNCHANGED <<sessVars, runVars>>

\* (mutant of Rethrow: the caught error is wrapped in a new one)
WrappedError(e) == [kind |-> "PipelineError", node |-> e.node]

\* What the catch block of the loop throws for the error it caught: the
\* error itself (throw error).
Rethrow(e) == e

\* Whether the loop goes on after a node threw: never (the catch rethrows).
ContinueAfterError == FALSE

\* (mutant of LoopInvokes: node.execute(context) is not awaited, so the loop
\* goes on to later positions while the node at idx is pending)
LoopInvokesAhead(idx, pos) == pos >= idx

\* Whether the loop of execute, with the iteration of position idx not yet
\* settled, invokes the node at position pos: only that of its own
\* iteration, since `await node.execute(context)` suspends the loop
\* (utils.ts:127-130).
LoopInvokes(idx, pos) == pos = idx

\* One iteration of the loop of execute begins: node.execute(context) is
\* called and the loop waits for the promise.
NodeStart ==
    /\ pPhase = "running"
    /\ LET pos == Len(pInvoked) + 1
       IN  /\ pos <= Len(pOrder)
           /\ LoopInvokes(pIdx, pos)
           /\ pOrder[pos] \in RegisteredIds(pNodes)
           /\ pInvoked' = Append(pInvoked, pOrder[pos])
    /\ UNCHANGED <<pNodes, pPhase, pOrder, pIdx, pResults, pFailedAt, pNodeErr, pThrown>>
    /\ UNCHANGED <<sessVars, runVars>>

\* The promise of the node at pIdx resolves: context.results[nodeId] = await
\* node.execute(context), and the loop goes on.
NodeSucceeds ==
    /\ pPhase = "running"
    /\ pOrder[pIdx] \in RegisteredIds(pNodes)
    /\ Len(pInvoked) >= pIdx
    /\ LET id == pOrder[pIdx]
       IN  pResults' = Append(pResults, [id |-> id, value |-> NodeResult(id)])
    /\ pIdx' = pIdx + 1
    /\ pPhase' = IF pIdx = Len(pOrder) THEN "returned" ELSE "running"
    /\ UNCHANGED <<pNodes, pOrder, pInvoked, pFailedAt, pNodeErr, pThrown>>
    /\ UNCHANGED <<sessVars, runVars>>

\* The promise of the node at pIdx rejects: the catch logs and rethrows.
NodeFails ==
    /\ pPhase = "running"
    /\ pOrder[pIdx] \in RegisteredIds(pNodes)
    /\ Len(pInvoked) >= pIdx
    /\ LET id == pOrder[pIdx]
       IN  /\ pNodeErr' = IF pNodeErr = NoErr THEN NodeError(id) ELSE pNodeErr
           /\ pFailedAt' = IF pFailedAt = 0 THEN pIdx ELSE pFailedAt
           /\ IF ContinueAfterError
              THEN /\ pIdx' = pIdx + 1
                   /\ pPhase' = IF pIdx = Len(pOrder) THEN "returned" ELSE "running"
                   /\ pThrown' = pThrown
              ELSE /\ pIdx' = pIdx
                   /\ pPhase' = "threw"
                   /\ pThrown' = Rethrow(NodeError(id))
    /\ UNCHANGED <<pNodes, pOrder, pResults, pInvoked>>
    /\ UNCHANGED <<sessVars, runVars>>

\* One iteration of the loop whose order entry is not an own node: node is
\* the inherited function, node.execute is undefined and the call throws a
\* TypeError inside the try; no node function is invoked.
NodeNotCallable ==
    /\ pPhase = "running"
    /\ pOrder[pIdx] \notin RegisteredIds(pNodes)
    /\ pFailedAt' = pIdx
    /\ pNodeErr' = NotAFunction(pOrder[pIdx])
    /\ pPhase' = "threw"
    /\ pThrown' = Rethrow(NotAFunction(pOrder[pIdx]))
    /\ UNCHANGED <<pNodes, pOrder, pIdx, pResults, pInvoked>>
    /\ UNCHANGED <<sessVars, runVars>>

PipelineNext ==
    \/ AddNode
    \/ ExecuteStart
    \/ NodeStart
    \/ NodeSucceeds
    \/ NodeFails
    \/ NodeNotCallable


(***************************************************************************)
(* Part I: properties                                                      *)
(***************************************************************************)

\* Every declared dependency id is a registered node.
DepsRegistered(nodes) ==
    \A i \in 1..Len(nodes) : SeqToSet(nodes[i].deps) \subseteq RegisteredIds(nodes)

\* The ids reachable from id along n or fewer dependency edges (n >= 1).
RECURSIVE ReachIn(_, _, _)
ReachIn(nodes, ids, n) ==
    IF n = 0 THEN {}
    ELSE LET next == UNION {SeqToSet(DepsOf(nodes, x)) : x \in ids}
         IN  next \cup ReachIn(nodes, next, n - 1)

Acyclic(nodes) ==
    \A i \in 1..Len(nodes) : nodes[i].id \notin ReachIn(nodes, {nodes[i].id}, Len(nodes))

PositionIn(order, id) == CHOOSE i \in 1..Len(order) : order[i] = id

\* C1: for an acyclic graph whose declared dependencies are all registered,
\* determineExecutionOrder does not throw, the order execute uses holds each
\* registered id exactly once, and every node comes after all the nodes it
\* declares as dependencies.
C1_OrderIsTopological ==
    (pPhase # "building" /\ Acyclic(pNodes) /\ DepsRegistered(pNodes)) =>
        /\ pThrown.kind # "DependencyNotFound"
        /\ Len(pOrder) = Len(pNodes)
        /\ SeqToSet(pOrder) = RegisteredIds(pNodes)
        /\ \A i \in 1..Len(pOrder) :
              \A d \in SeqToSet(DepsOf(pNodes, pOrder[i])) :
                 \E j \in 1..(i - 1) : pOrder[j] = d

\* C1 witness: a run over three nodes completed, the node registered first
\* depends on the two registered after it, one of which depends on the other.
C1_Witness ==
    /\ pPhase = "returned"
    /\ Len(pNodes) = 3
    /\ Acyclic(pNodes) /\ DepsRegistered(pNodes)
    /\ Len(pNodes[1].deps) = 2
    /\ pNodes[2].deps = <<pNodes[3].id>>
    /\ pOrder = <<pNodes[3].id, pNodes[2].id, pNodes[1].id>>

\* Some node declares a dependency id that is not a registered node.
HasMissingDep(nodes) == ~DepsRegistered(nodes)

\* C2: when some node declares a dependency id that is not registered,
\* execute fails with the dependency-not-found error naming a missing id
\* declared by the node it names, and no node's execute function has been
\* invoked.
C2_MissingDepFailsFirst ==
    (pPhase # "building" /\ HasMissingDep(pNodes)) =>
        /\ pPhase = "threw"
        /\ pInvoked = <<>>
        /\ pThrown.kind = "DependencyNotFound"
        /\ pThrown.dep \notin RegisteredIds(pNodes)
        /\ pThrown.dep \in SeqToSet(DepsOf(pNodes, pThrown.node))

\* C3: once the node at position k of the order has failed, execute has
\* thrown exactly that node's error, the nodes invoked are those at
\* positions up to k and none later, and the results of the nodes before k
\* are in the context.
C3_FailureStopsRun ==
    pFailedAt # 0 =>
        /\ pPhase = "threw"
        /\ pThrown = pNodeErr
        /\ pNodeErr.node = pOrder[pFailedAt]
        /\ Len(pInvoked) <= pFailedAt
        /\ \A i \in 1..Len(pInvoked) : pInvoked[i] = pOrder[i]
        /\ Len(pResults) = pFailedAt - 1
        /\ \A i \in 1..Len(pResults) :
              pResults[i] = [id |-> pOrder[i], value |-> NodeResult(pOrder[i])]

\* C3 witness: the second of three nodes failed after the first succeeded.
C3_Witness ==
    /\ pFailedAt = 2
    /\ Len(pOrder) = 3
    /\ pPhase = "threw"
    /\ pInvoked = <<pOrder[1], pOrder[2]>>
    /\ Len(pResults) = 1
    /\ pThrown = NodeError(pOrder[2])


(***************************************************************************)
(* Part II: the conversation handlers of app.ts                            *)
(***************************************************************************)
\* Events of one run that start a transition.
MaxEvents == 5

\* Events of one run that are dispatched while another handler is suspended
\* at an await.
MaxOverlaps == 1

\* Events of a run before its last event dispatched while another handler
\* is suspended; a run goes on after an overlap only while it holds fewer.
MaxOverlapEvents == 3

Users == {"u1"}
\* Threads are interchangeable: the first message of a run arrives in t1.
Threads == {"t1", "t2"}
\* Texts of inbound user messages.
Texts == {<<"m1">>}
\* Handler invocations that can be in flight at once.
Slots == {"h1", "h2"}

\* The channel a thread lives in.
ChannelOf(t) == "c1"

\* The text of the first message of a thread (conversations.replies).
FirstMessageOf(t) == <<"first", t>>

\* The text of the analysis card (body.message.text of its buttons).
AnalysisCardText == <<"card">>

\* The llmData extracted from the analysis card's text.
LlmData == <<"llmData">>

\* ---- Map helpers ----
MapSet(m, k, v) == (k :> v) @@ m
MapDelete(m, k) == [x \in (DOMAIN m) \ {k} |-> m[x]]
EmptyMap == <<>>

\* ---- thread tracking (app.ts:68-132, 1932-1970) ----
\* (mutant: every thread is marked)
MarkEveryThreadWithAnalysis(m, threadTs, channelId) ==
    [t \in Threads |-> [channelId |-> channelId]]

MarkThreadWithAnalysis(m, threadTs, channelId) ==
    MapSet(m, threadTs, [channelId |-> channelId])

HasThreadDisplayedAnalysis(m, threadTs, channelId) ==
    threadTs \in DOMAIN m /\ m[threadTs].channelId = channelId

\* (the entry is looked up and left in the map)
KeepThreadTracking(m, threadTs) == m

\* clearThreadAnalysisTracking / clearThreadNoResultsTracking /
\* clearThreadResultsTracking: delete the key when present.
ClearThreadTracking(m, threadTs) ==
    IF threadTs \in DOMAIN m THEN MapDelete(m, threadTs) ELSE m

\* markThreadNoResults / markThreadWithResults
MarkThreadQuery(m, threadTs, channelId, originalQuery, analysisData) ==
    MapSet(m, threadTs, [channelId |-> channelId, originalQuery |-> originalQuery,
                         analysisData |-> analysisData])

\* hasThreadNoResults / hasThreadWithResults
HasThread(m, threadTs) == threadTs \in DOMAIN m

\* ---- edit mode (app.ts:134-173) ----
GetUserStateKey(userId, channelId) == <<userId, channelId>>

IsUserInEditMode(userId, channelId) ==
    LET key == GetUserStateKey(userId, channelId)
    IN  key \in DOMAIN userStates /\ userStates[key].isInEditMode

\* (mutant of SetUserEditMode: another thread is recorded)
SetUserEditModeOtherThread(m, userId, channelId, threadTs, originalMessageText) ==
    MapSet(m, GetUserStateKey(userId, channelId),
           [isInEditMode |-> TRUE, channelId |-> channelId,
            threadTs |-> CHOOSE t \in Threads : t # threadTs,
            originalMessageText |-> originalMessageText])

SetUserEditMode(m, userId, channelId, threadTs, originalMessageText) ==
    MapSet(m, GetUserStateKey(userId, channelId),
           [isInEditMode |-> TRUE, channelId |-> channelId, threadTs |-> threadTs,
            originalMessageText |-> originalMessageText])

\* (mutant: the state is read and left in edit mode)
KeepUserEditMode(m, userId, channelId) == m

ClearUserEditMode(m, userId, channelId) ==
    LET key == GetUserStateKey(userId, channelId)
    IN  IF key \in DOMAIN m THEN MapDelete(m, key) ELSE m

\* ---- handler invocations ----
\* What is tracked for a handler's own thread and user.
SnapshotOf(an, nr, rs, us, t, u) ==
    [analysis |-> HasThread(an, t),
     noResults |-> HasThread(nr, t),
     results |-> HasThread(rs, t),
     edit |-> LET key == GetUserStateKey(u, ChannelOf(t))
              IN  key \in DOMAIN us /\ us[key].isInEditMode]

Snapshot(t, u) ==
    SnapshotOf(analysisThreads, noResultsThreads, resultsThreads, userStates, t, u)

NoSnapshot == [analysis |-> FALSE, noResults |-> FALSE, results |-> FALSE, edit |-> FALSE]

IdleHandler ==
    [kind |-> "idle", pc |-> "idle", user |-> "u1", thread |-> "t1", text |-> <<>>,
     rule |-> 0,           \* message handler: the branch taken (1..5), 0 none
     ignorable |-> FALSE,  \* message handler: the message is one the guards are for
     target |-> "t1",      \* threadTs given to analyzeMessageContent / executeLinearSearch
     query |-> <<>>,       \* query given to executeLinearSearch
     refined |-> <<>>,     \* refinedQuery
     orig |-> <<>>,        \* the query or message the search started from
     stage |-> "none",     \* the retry loop it is in: "confirm" or "search"
     found |-> "none",     \* what the search tool returned: "empty" or "hits"
     attempt |-> 0,        \* executeLinearSearch: attempt
     cattempt |-> 0,       \* llm_result_confirm: attempt
     thrown |-> NoErr,     \* the error its transition ended on
     acts |-> {},          \* what the handler did: "analysis", "refine", "search", "greeting"
     said |-> {},          \* kinds of messages it sent to the thread
     marked |-> {},        \* tracking entries it set
     toolQueries |-> {},   \* queries it called the search tool with
     getCalls |-> 0,       \* getMcpClient() calls it made
     toolCalls |-> 0,      \* callTool() calls of the search tool it made
     getFound |-> "none",  \* its last getMcpClient() call found isConnected "set" / "unset"
     getConnects |-> 0,    \* client.connect() calls made during that getMcpClient() call
     getThrew |-> "none",  \* that call ended in a failed connect: "connect", or
                           \* "connect_cleared" when its catch cleared a set flag
     listed |-> "none",    \* executeLinearSearch: what its last listTools() gave
     apology |-> "",       \* the error message its "Sorry, ..." message holds
     excerpt |-> "none",   \* how much of the raw payload its payload message holds
     failed |-> {},        \* calls that threw for good: "inference", "search" (connection, tools)
     outcome |-> "none",   \* how it ended
     pre |-> NoSnapshot,   \* the tracking of its thread and user when it was dispatched,
     mid |-> NoSnapshot,   \* when it reached its first await,
     post |-> NoSnapshot]  \* and when it ended

Busy(h) == handlers[h].pc # "idle"

\* The handler record with pc "done" and the closing snapshot taken in the
\* state the step leaves (maps passed in are the primed ones).
Finish(rec, outcome, an, nr, rs, us) ==
    [rec EXCEPT !.pc = "done", !.outcome = outcome,
                !.post = SnapshotOf(an, nr, rs, us, rec.thread, rec.user)]

SessionInit ==
    /\ analysisThreads = EmptyMap
    /\ noResultsThreads = EmptyMap
    /\ resultsThreads = EmptyMap
    /\ userStates = EmptyMap
    /\ isConnected = FALSE
    /\ mcpClient = <<>>
    /\ bootPc = "connecting"
    /\ cards = [t \in Threads |-> {}]
    /\ handlers = [h \in Slots |-> IdleHandler]
    /\ evCount = 0
    /\ overlaps = 0

\* No settled handler is waiting to leave its slot.
Settled == \A g \in Slots : handlers[g].pc # "done"

\* Handler h is suspended at the await named pc.
At(h, pc) == handlers[h].pc = pc /\ Settled

InFlight(h) == handlers[h].pc \notin {"idle", "done"}

\* The slot a newly dispatched handler runs in: the first idle one.
FreeSlot(h) ==
    /\ ~Busy(h)
    /\ h = "h2" => Busy("h1")

\* Some other handler is suspended at an await when h is dispatched.
Overlapping(h) == \E g \in Slots \ {h} : InFlight(g)

CanDispatch(h) ==
    /\ Settled
    /\ evCount < MaxEvents
    /\ FreeSlot(h)
    /\ Overlapping(h) => overlaps < MaxOverlaps
    /\ Overlapping(h) => evCount < MaxOverlapEvents + 1
    /\ overlaps > 0 => evCount < MaxOverlapEvents

\* The bookkeeping of a dispatch into slot h.
Dispatched(h) ==
    /\ evCount' = evCount + 1
    /\ overlaps' = IF Overlapping(h) THEN overlaps + 1 ELSE overlaps

SetHandler(h, rec) == handlers' = [handlers EXCEPT ![h] = rec]

\* The record of a handler dispatched for user u in thread t; an, nr, rs,
\* us: the tracking as its synchronous start leaves it.
NewHandler(kind, u, t, x, an, nr, rs, us) ==
    [IdleHandler EXCEPT !.kind = kind, !.user = u, !.thread = t, !.target = t,
                        !.text = x, !.pre = Snapshot(t, u),
                        !.mid = SnapshotOf(an, nr, rs, us, t, u)]

\* ---- app.message (app.ts:192-426) ----

\* Shapes of inbound message events.
MessageShapes == {"plain", "file_share", "other_subtype", "no_user", "bot_id",
                  "bot_profile", "bot_message"}

\* Messages of a bot, of no user, or with a subtype other than file_share.
Ignorable(shape) == shape \notin {"plain", "file_share"}

\* (mutant: the bot_id check is missing)
IsUserMessageOrBot(shape) == shape \in {"plain", "file_share", "bot_id"}

\* The guards at the top of the handler (app.ts:194-215): subtype undefined
\* or file_share, a user, and no bot identity.
IsUserMessage(shape) == shape \in {"plain", "file_share"}

\* (mutant of MessageRule: the thread checks come before the edit-mode check)
MessageRuleThreadFirst(u, t) ==
    IF HasThreadDisplayedAnalysis(analysisThreads, t, ChannelOf(t)) THEN 2
    ELSE IF HasThread(noResultsThreads, t) THEN 3
    ELSE IF HasThread(resultsThreads, t) THEN 4
    ELSE IF IsUserInEditMode(u, ChannelOf(t)) THEN 1
    ELSE 5

\* The branch the message handler takes (app.ts:233, 264, 289, 334, 380).
MessageRule(u, t) ==
    IF IsUserInEditMode(u, ChannelOf(t)) THEN 1
    ELSE IF HasThreadDisplayedAnalysis(analysisThreads, t, ChannelOf(t)) THEN 2
    ELSE IF HasThread(noResultsThreads, t) THEN 3
    ELSE IF HasThread(resultsThreads, t) THEN 4
    ELSE 5

\* (mutant of EditAnalysis: the analysis is run in the thread of the message)
EditAnalysisInMessageThread(state, thread_ts, text) ==
    [threadTs |-> thread_ts, messageText |-> text]

\* The thread and text the edit-mode branch gives to analyzeMessageContent
\* (app.ts:247-256): the thread of the user state, the text of the message.
EditAnalysis(state, thread_ts, text) ==
    [threadTs |-> state.threadTs, messageText |-> text]

\* A message the guards drop (app.ts:194-215): the handler returns at once;
\* such a message starts no transition and is not counted.
MessageDropped(h) ==
    /\ CanDispatch(h)
    /\ \E shape \in MessageShapes, u \in Users, t \in Threads :
        /\ ~IsUserMessage(shape)
        /\ SetHandler(h, Finish([NewHandler("dropped", u, t, <<>>, analysisThreads,
                                            noResultsThreads, resultsThreads, userStates)
                                   EXCEPT !.ignorable = Ignorable(shape)],
                                "ignored", analysisThreads, noResultsThreads,
                                resultsThreads, userStates))
    /\ UNCHANGED <<analysisThreads, noResultsThreads, resultsThreads, userStates,
                   isConnected, mcpClient, bootPc, cards, evCount, overlaps>>
    /\ UNCHANGED <<pipeVars, runVars>>

\* The threads once the user has sent the next message: no edit prompt waits
\* for one any more.
Answered(c) == [t \in Threads |-> c[t] \ {"edit_prompt"}]

\* A user message, up to the first await of the branch taken: the tracking
\* entry of the branch is read and cleared.
MessageStart(h) ==
    /\ CanDispatch(h)
    /\ \E shape \in MessageShapes, u \in Users, t \in Threads, x \in Texts :
        /\ IsUserMessage(shape)
        /\ evCount = 0 => t = "t1"
        /\ LET ch == ChannelOf(t)
               rule == MessageRule(u, t)
               us == IF rule = 1 THEN ClearUserEditMode(userStates, u, ch) ELSE userStates
               an == IF rule = 2 THEN ClearThreadTracking(analysisThreads, t)
                     ELSE analysisThreads
               nr == IF rule = 3 THEN ClearThreadTracking(noResultsThreads, t)
                     ELSE noResultsThreads
               rs == IF rule = 4 THEN ClearThreadTracking(resultsThreads, t)
                     ELSE resultsThreads
               rec == [NewHandler("message", u, t, x, an, nr, rs, us)
                         EXCEPT !.rule = rule, !.ignorable = Ignorable(shape)]
           IN  /\ userStates' = us
               /\ analysisThreads' = an
               /\ noResultsThreads' = nr
               /\ resultsThreads' = rs
               /\ CASE rule = 1 ->
                        LET args == EditAnalysis(userStates[GetUserStateKey(u, ch)], t, x)
                        IN  SetHandler(h, [rec EXCEPT !.pc = "an_llm",
                                !.target = args.threadTs, !.text = args.messageText])
                   [] rule = 2 -> SetHandler(h, [rec EXCEPT !.pc = "an_llm"])
                   [] rule = 3 ->
                        SetHandler(h, [rec EXCEPT !.pc = "rf_say",
                            !.query = noResultsThreads[t].originalQuery])
                   [] rule = 4 ->
                        SetHandler(h, [rec EXCEPT !.pc = "rf_say",
                            !.query = resultsThreads[t].originalQuery])
                   [] OTHER -> SetHandler(h, [rec EXCEPT !.pc = "greet"])
    /\ cards' = Answered(cards)
    /\ Dispatched(h)
    /\ UNCHANGED <<isConnected, mcpClient, bootPc>>
    /\ UNCHANGED <<pipeVars, runVars>>

\* await say(greeting card) (app.ts:380-415). A rejected say is not caught
\* in the handler.
Greet(h) ==
    /\ At(h, "greet")
    /\ LET rec == [handlers[h] EXCEPT !.acts = @ \cup {"greeting"}]
       IN  \E posted \in BOOLEAN :
             IF posted
             THEN /\ cards' = [cards EXCEPT ![rec.thread] = @ \cup {"greeting"}]
                  /\ SetHandler(h, Finish([rec EXCEPT !.said = @ \cup {"greeting"}], "greeted",
                         analysisThreads, noResultsThreads, resultsThreads, userStates))
             ELSE /\ cards' = cards
                  /\ SetHandler(h, Finish(rec, "unhandled",
                         analysisThreads, noResultsThreads, resultsThreads, userStates))
    /\ UNCHANGED <<analysisThreads, noResultsThreads, resultsThreads, userStates,
                   isConnected, mcpClient, bootPc, evCount, overlaps>>
    /\ UNCHANGED <<pipeVars, runVars>>

\* ---- analyzeMessageContent (app.ts:1173-1436) ----

\* Outcomes of the analysis request llm.responses.create and of parsing it.
AnalysisOutcomes == {"json", "not_json", "throws"}

\* sendResponse of analyzeMessageContent and executeLinearSearch
\* (app.ts:1193-1222, 1664-1693): the messages in the thread after a send
\* that Slack accepted (posted) or rejected; a rejected send is logged.
Sent(said, message, posted) == IF posted THEN said \cup {message} ELSE said

\* From the "analyzing" message to the end of the inference request and
\* JSON.parse (app.ts:1224-1347, catch 1427-1435).
AnalyzeInfer(h) ==
    /\ At(h, "an_llm")
    /\ LET rec == [handlers[h] EXCEPT !.acts = @ \cup {"analysis"},
                                      !.said = @ \cup {"analyzing"}]
       IN  \E res \in AnalysisOutcomes, posted \in BOOLEAN :
             CASE res = "json" -> posted /\ SetHandler(h, [rec EXCEPT !.pc = "an_card"])
               [] res = "not_json" ->
                    SetHandler(h, Finish([rec EXCEPT !.said = Sent(@, "parse_sorry", posted),
                                                     !.failed = @ \cup {"parsing"}],
                        "analysis_unparsed",
                        analysisThreads, noResultsThreads, resultsThreads, userStates))
               [] OTHER ->
                    SetHandler(h, Finish([rec EXCEPT !.said = Sent(@, "analysis_error", posted),
                                                     !.failed = @ \cup {"inference"}],
                        "analysis_failed",
                        analysisThreads, noResultsThreads, resultsThreads, userStates))
    /\ UNCHANGED <<analysisThreads, noResultsThreads, resultsThreads, userStates,
                   isConnected, mcpClient, bootPc, cards, evCount, overlaps>>
    /\ UNCHANGED <<pipeVars, runVars>>

\* The analysis card is sent; sendResponse swallows a failed send
\* (app.ts:1375-1417).
AnalyzeShow(h) ==
    /\ At(h, "an_card")
    /\ LET rec == handlers[h]
       IN  \E posted \in BOOLEAN :
             /\ cards' = IF posted THEN [cards EXCEPT ![rec.target] = @ \cup {"analysis"}]
                         ELSE cards
             /\ SetHandler(h, [rec EXCEPT
                       !.said = IF posted THEN @ \cup {"analysis_card"} ELSE @,
                       !.pc = "an_mark"])
    /\ UNCHANGED <<analysisThreads, noResultsThreads, resultsThreads, userStates,
                   isConnected, mcpClient, bootPc, evCount, overlaps>>
    /\ UNCHANGED <<pipeVars, runVars>>

\* After the send the thread is marked and analyzeMessageContent returns
\* (app.ts:1419-1426).
AnalyzeMark(h) ==
    /\ At(h, "an_mark")
    /\ LET rec == handlers[h]
           an == MarkThreadWithAnalysis(analysisThreads, rec.target, ChannelOf(rec.thread))
       IN  /\ analysisThreads' = an
           /\ SetHandler(h, Finish([rec EXCEPT !.marked = @ \cup {"analysis"}],
                  "analysis_shown", an, noResultsThreads, resultsThreads, userStates))
    /\ UNCHANGED <<noResultsThreads, resultsThreads, userStates,
                   isConnected, mcpClient, bootPc, cards, evCount, overlaps>>
    /\ UNCHANGED <<pipeVars, runVars>>

\* The handler's promise has settled; its slot is free again.
Retire(h) ==
    /\ handlers[h].pc = "done"
    /\ SetHandler(h, IdleHandler)
    /\ UNCHANGED <<analysisThreads, noResultsThreads, resultsThreads, userStates,
                   isConnected, mcpClient, bootPc, cards, evCount, overlaps>>
    /\ UNCHANGED <<pipeVars, runVars>>

\* ---- the cached MCP connection (app.ts:2037-2185) ----

\* Thrown values the handlers tell apart: an Error whose message holds
\* "connect", "closed" or "timeout"; an Error whose message holds none; the
\* string "Not connected".
ConnErr == [kind |-> "Error", keyword |-> TRUE, text |-> "connect"]
OtherErr == [kind |-> "Error", keyword |-> FALSE, text |-> "other"]
NotConnectedString == [kind |-> "string", keyword |-> TRUE, text |-> "Not connected"]
\* thrown by getMcpClient: "MCP Client is not available after attempting connection."
NotAvailableErr == [kind |-> "Error", keyword |-> TRUE, text |-> "not available after attempting connection"]
\* thrown by executeLinearSearch: "Linear search tool not available"
ToolMissingErr == [kind |-> "Error", keyword |-> FALSE, text |-> "Linear search tool not available"]

\* isConnectionError (app.ts:952-956, 1904-1908)
IsConnectionError(e) == e.kind = "Error" /\ e.keyword

\* typeof toolError === "string" && toolError.includes("Not connected")
IsNotConnectedString(e) == e.kind = "string" /\ e.text = "Not connected"

\* The retry loops run for attempt = 1..2 (app.ts:694, 1698).
MaxAttempts == 2

\* The initializeMcpClient() call made when the module is loaded resolves.
BootConnect ==
    /\ Settled
    /\ bootPc = "connecting"
    /\ bootPc' = "done"
    /\ \E ok \in BOOLEAN :
         IF ok THEN isConnected' = TRUE /\ mcpClient' = <<"boot">>
               ELSE isConnected' = FALSE /\ mcpClient' = <<>>
    /\ UNCHANGED <<analysisThreads, noResultsThreads, resultsThreads, userStates,
                   cards, handlers, evCount, overlaps>>
    /\ UNCHANGED <<pipeVars, runVars>>

\* What the catch of a retry loop does with a thrown value e, as the set of
\* [rec, ic, mc]: the handler record and the connection state it leaves.
\* ic, mc: the connection state when e was thrown.
\*   executeLinearSearch (app.ts:1900-1929): a connection error on the first
\*   attempt marks the client disconnected and retries; anything else goes to
\*   the outer catch, which sends the apology and returns.
\*   llm_result_confirm (app.ts:949-982): the same, but its sendResponse
\*   falls back to response_url, whose fetch is not guarded.
Catch(rec, e, ic, mc) ==
    LET f == [rec EXCEPT !.thrown = e, !.failed = @ \cup {"search"}]
    IN  IF rec.stage = "search"
        THEN IF IsConnectionError(e) /\ rec.attempt < MaxAttempts
             THEN {[rec |-> [rec EXCEPT !.attempt = @ + 1, !.pc = "get"],
                    ic |-> FALSE, mc |-> <<>>]}
             ELSE {[rec |-> Finish([f EXCEPT !.said = Sent(@, "search_error", posted),
                                              !.apology = IF posted THEN e.text ELSE @],
                                   "search_failed", analysisThreads, noResultsThreads,
                                   resultsThreads, userStates),
                    ic |-> ic, mc |-> mc] : posted \in BOOLEAN}
        ELSE IF IsConnectionError(e) /\ rec.cattempt < MaxAttempts
             THEN {[rec |-> [rec EXCEPT !.cattempt = @ + 1, !.pc = "get"],
                    ic |-> FALSE, mc |-> <<>>]}
             ELSE {[rec |-> Finish([f EXCEPT !.said = @ \cup {"search_error"},
                                              !.apology = e.text],
                                   "search_failed", analysisThreads, noResultsThreads,
                                   resultsThreads, userStates),
                    ic |-> ic, mc |-> mc],
                   [rec |-> Finish(f, "unhandled", analysisThreads, noResultsThreads,
                                   resultsThreads, userStates),
                    ic |-> ic, mc |-> mc]}

\* The step h makes when e is thrown inside its retry loop; rec: its record
\* when e is thrown.
Throw(h, rec, e, ic, mc) ==
    \E c \in Catch(rec, e, ic, mc) :
        /\ SetHandler(h, c.rec)
        /\ isConnected' = c.ic
        /\ mcpClient' = c.mc

\* Where a handler goes once getMcpClient returned a client.
AfterClient(rec) == IF rec.stage = "confirm" THEN "cf_list" ELSE "se_list"

\* if (!isConnected) await initializeMcpClient() (app.ts:2165-2171).
\* (mutant: every call reconnects)
NeedsConnectAlways(connected) == TRUE

NeedsConnect(connected) == ~connected

\* getMcpClient() up to its first await (app.ts:2164-2180), at the start of
\* an attempt: connected, it returns the cached client; otherwise
\* initializeMcpClient clears the state and starts to connect.
GetClient(h) ==
    /\ At(h, "get")
    /\ LET rec == [handlers[h] EXCEPT !.getCalls = @ + 1,
                                      !.getFound = IF isConnected THEN "set" ELSE "unset",
                                      !.getConnects = 0,
                                      !.getThrew = "none"]
       IN  IF ~NeedsConnect(isConnected)
           THEN IF mcpClient = <<>>
                THEN Throw(h, rec, NotAvailableErr, isConnected, mcpClient)
                ELSE /\ SetHandler(h, [rec EXCEPT !.pc = AfterClient(rec)])
                     /\ UNCHANGED <<isConnected, mcpClient>>
           ELSE /\ isConnected' = FALSE
                /\ mcpClient' = <<>>
                /\ SetHandler(h, [rec EXCEPT !.pc = "connect"])
    /\ UNCHANGED <<analysisThreads, noResultsThreads, resultsThreads, userStates,
                   bootPc, cards, evCount, overlaps>>
    /\ UNCHANGED <<pipeVars, runVars>>

\* (mutant: the catch of initializeMcpClient leaves the state as it is)
ConnectLeavesState(h) ==
    /\ At(h, "connect")
    /\ LET rec == [handlers[h] EXCEPT !.getConnects = @ + 1]
       IN  \/ /\ isConnected' = TRUE
              /\ mcpClient' = <<h>>
              /\ SetHandler(h, [rec EXCEPT !.pc = "check"])
           \/ \E e \in {ConnErr, OtherErr} :
                Throw(h, [rec EXCEPT !.getThrew = IF isConnected THEN "connect_cleared"
                                                                 ELSE "connect"],
                      e, isConnected, mcpClient)
    /\ UNCHANGED <<analysisThreads, noResultsThreads, resultsThreads, userStates,
                   bootPc, cards, evCount, overlaps>>
    /\ UNCHANGED <<pipeVars, runVars>>

\* await client.connect(transport) settles (app.ts:2141-2161).
Connect(h) ==
    /\ At(h, "connect")
    /\ LET rec == [handlers[h] EXCEPT !.getConnects = @ + 1]
       IN  \/ /\ isConnected' = TRUE
              /\ mcpClient' = <<h>>
              /\ SetHandler(h, [rec EXCEPT !.pc = "check"])
           \/ \E e \in {ConnErr, OtherErr} :
                Throw(h, [rec EXCEPT !.getThrew = IF isConnected THEN "connect_cleared"
                                                                 ELSE "connect"],
                      e, FALSE, <<>>)
    /\ UNCHANGED <<analysisThreads, noResultsThreads, resultsThreads, userStates,
                   bootPc, cards, evCount, overlaps>>
    /\ UNCHANGED <<pipeVars, runVars>>

\* getMcpClient after await initializeMcpClient() (app.ts:2173-2179).
CheckClient(h) ==
    /\ At(h, "check")
    /\ IF mcpClient = <<>> \/ ~isConnected
       THEN Throw(h, handlers[h], NotAvailableErr, isConnected, mcpClient)
       ELSE /\ SetHandler(h, [handlers[h] EXCEPT !.pc = AfterClient(handlers[h])])
            /\ UNCHANGED <<isConnected, mcpClient>>
    /\ UNCHANGED <<analysisThreads, noResultsThreads, resultsThreads, userStates,
                   bootPc, cards, evCount, overlaps>>
    /\ UNCHANGED <<pipeVars, runVars>>

\* ---- executeLinearSearch (app.ts:1646-1930) ----

\* Outcomes of mcpClient.listTools().
ListOutcomes == {"with_search", "without_search", "throws"}

\* await mcpClient.listTools() and the lookup of the search tool
\* (app.ts:1704-1738).
SearchList(h) ==
    /\ At(h, "se_list")
    /\ \E res \in ListOutcomes :
         LET rec == [handlers[h] EXCEPT !.listed = res]
         IN  CASE res = "with_search" ->
                    /\ SetHandler(h, [rec EXCEPT !.pc = "se_call"])
                    /\ UNCHANGED <<isConnected, mcpClient>>
               [] res = "without_search" ->
                    Throw(h, rec, ToolMissingErr, isConnected, mcpClient)
               [] OTHER ->
                    \E e \in {ConnErr, OtherErr, NotConnectedString} :
                        IF IsNotConnectedString(e)
                        THEN Throw(h, rec, e, FALSE, <<>>)
                        ELSE Throw(h, rec, e, isConnected, mcpClient)
    /\ UNCHANGED <<analysisThreads, noResultsThreads, resultsThreads, userStates,
                   bootPc, cards, evCount, overlaps>>
    /\ UNCHANGED <<pipeVars, runVars>>

\* What executeLinearSearch runs on the issues: the search tool call
\* (app.ts:1751). Its result is formatted and shown as it is; no rating
\* request follows on this path.
ActsOfSearch == {"search"}

\* Payloads of the search tool that are no structured data: a result
\* without content[0].text, a text that starts with "Error:", a text that is
\* not JSON.
PayloadProblems == {"bad_shape", "error_text", "invalid_json"}

\* Outcomes of mcpClient.callTool(): a payload problem; a JSON payload with
\* no issues (an empty array or no array); one with issues; a throw.
CallOutcomes == PayloadProblems \cup {"empty", "hits", "throws"}

\* How much of the raw payload the message sent for a payload problem holds
\* (app.ts:1773-1796): all of the "Error:" text, untruncated; for text that
\* is not JSON only the parser's message; nothing for an unexpected shape.
ExcerptOf(problem) == IF problem = "error_text" THEN "whole" ELSE "none"

\* await mcpClient.callTool(...) and the processing of its result up to the
\* next await (app.ts:1744-1809, 1841-1868).
SearchCall(h) ==
    /\ At(h, "se_call")
    /\ LET rec == [handlers[h] EXCEPT !.acts = @ \cup ActsOfSearch,
                                      !.toolQueries = @ \cup {handlers[h].query},
                                      !.toolCalls = @ + 1]
           ch == ChannelOf(rec.thread)
       IN  \E res \in CallOutcomes, posted \in BOOLEAN :
             CASE res \in PayloadProblems ->
                    /\ SetHandler(h, Finish([rec EXCEPT !.said = Sent(@, "payload_problem", posted),
                                                        !.excerpt = IF posted THEN ExcerptOf(res)
                                                                    ELSE @,
                                                        !.failed = @ \cup {"parsing"}],
                           "search_payload_problem", analysisThreads, noResultsThreads,
                           resultsThreads, userStates))
                    /\ UNCHANGED <<noResultsThreads, resultsThreads, isConnected, mcpClient>>
               [] res = "empty" ->
                    /\ noResultsThreads' = MarkThreadQuery(noResultsThreads, rec.target, ch,
                                                           rec.query, LlmData)
                    /\ SetHandler(h, [rec EXCEPT !.pc = "se_card", !.found = "empty",
                                                 !.marked = @ \cup {"noResults"}])
                    /\ UNCHANGED <<resultsThreads, isConnected, mcpClient>>
               [] res = "hits" ->
                    /\ resultsThreads' = MarkThreadQuery(resultsThreads, rec.target, ch,
                                                         rec.query, LlmData)
                    /\ SetHandler(h, [rec EXCEPT !.pc = "se_card", !.found = "hits",
                                                 !.marked = @ \cup {"results"}])
                    /\ UNCHANGED <<noResultsThreads, isConnected, mcpClient>>
               [] OTHER ->
                    /\ \E e \in {ConnErr, OtherErr} : Throw(h, rec, e, isConnected, mcpClient)
                    /\ UNCHANGED <<noResultsThreads, resultsThreads>>
    /\ UNCHANGED <<analysisThreads, userStates, bootPc, cards, evCount, overlaps>>
    /\ UNCHANGED <<pipeVars, runVars>>

\* The no-results card or the results card is sent (sendResponse swallows a
\* failed send) and executeLinearSearch returns (app.ts:1811-1838, 1870-1899).
SearchShow(h) ==
    /\ At(h, "se_card")
    /\ LET rec == handlers[h]
           card == IF rec.found = "empty" THEN "noResults" ELSE "results"
       IN  \E posted \in BOOLEAN :
             /\ cards' = IF posted THEN [cards EXCEPT ![rec.target] = @ \cup {card}] ELSE cards
             /\ SetHandler(h, Finish([rec EXCEPT
                       !.said = IF posted THEN @ \cup {card} ELSE @],
                    IF rec.found = "empty" THEN "search_empty" ELSE "search_hits",
                    analysisThreads, noResultsThreads, resultsThreads, userStates))
    /\ UNCHANGED <<analysisThreads, noResultsThreads, resultsThreads, userStates,
                   isConnected, mcpClient, bootPc, evCount, overlaps>>
    /\ UNCHANGED <<pipeVars, runVars>>

\* ---- the refinement branches of app.message (app.ts:289-377) ----

\* refinedQuery as generateRefinedSearchQuery returns it (app.ts:1570-1643):
\* the model's answer, or originalQuery + " " + newUserInput when the answer
\* is empty or the request throws.
RefinedByModel(originalQuery, newUserInput) == <<"refined", originalQuery, newUserInput>>
RefinedFallback(originalQuery, newUserInput) == <<"concat", originalQuery, newUserInput>>

\* The query the refinement branches hand to executeLinearSearch
\* (app.ts:318-319, 365-366): query: noResultsData.originalQuery.
RefinementSearchQuery(originalQuery, refinedQuery) == originalQuery

RefineOutcomes == {"say_throws", "answer", "empty_answer", "throws"}

\* await say("...I'll refine my search..."), await
\* generateRefinedSearchQuery(...), and the call of executeLinearSearch.
Refine(h) ==
    /\ At(h, "rf_say")
    /\ LET rec == handlers[h]
       IN  \E res \in RefineOutcomes :
             IF res = "say_throws"
             THEN SetHandler(h, Finish(rec, "unhandled", analysisThreads, noResultsThreads,
                                       resultsThreads, userStates))
             ELSE LET refined == IF res = "answer" THEN RefinedByModel(rec.query, rec.text)
                                 ELSE RefinedFallback(rec.query, rec.text)
                  IN  SetHandler(h, [rec EXCEPT
                          !.said = @ \cup {"refining"},
                          !.acts = @ \cup {"refine"},
                          !.refined = refined,
                          !.failed = IF res = "throws" THEN @ \cup {"inference"} ELSE @,
                          !.orig = rec.query,
                          !.query = RefinementSearchQuery(rec.query, refined),
                          !.stage = "search", !.attempt = 1, !.pc = "get"])
    /\ UNCHANGED <<analysisThreads, noResultsThreads, resultsThreads, userStates,
                   isConnected, mcpClient, bootPc, cards, evCount, overlaps>>
    /\ UNCHANGED <<pipeVars, runVars>>

\* ---- button handlers ----

\* A button can be clicked once its card has been posted in the thread.
CanClick(h, t, card) == CanDispatch(h) /\ card \in cards[t]

\* The text the find handler passes on as the message to analyse
\* (app.ts:479-560): the thread's first message (a placeholder stands in
\* for it when the history cannot be read).
FindTexts(t) == {FirstMessageOf(t)}

\* find_linear_issues (app.ts:455-579): reads the thread history and calls
\* analyzeMessageContent for the thread.
FindStart(h) ==
    /\ \E u \in Users, t \in Threads :
        /\ CanClick(h, t, "greeting")
        /\ \E x \in FindTexts(t) :
             SetHandler(h, [NewHandler("find", u, t, x, analysisThreads, noResultsThreads, resultsThreads, userStates) EXCEPT !.pc = "an_llm"])
    /\ Dispatched(h)
    /\ UNCHANGED <<analysisThreads, noResultsThreads, resultsThreads, userStates,
                   isConnected, mcpClient, bootPc, cards>>
    /\ UNCHANGED <<pipeVars, runVars>>

\* ignore_bot (app.ts:581-607): asks Slack to delete the greeting card
\* through response_url; a failed request is logged.
Ignore(h) ==
    /\ \E u \in Users, t \in Threads :
        /\ CanClick(h, t, "greeting")
        /\ \E deleted \in BOOLEAN :
            /\ cards' = IF deleted THEN [cards EXCEPT ![t] = @ \ {"greeting"}] ELSE cards
            /\ SetHandler(h, Finish([NewHandler("ignore", u, t, <<>>, analysisThreads, noResultsThreads, resultsThreads, userStates) EXCEPT
                      !.said = IF deleted THEN {"dismissed"} ELSE {}],
                   "dismissed", analysisThreads, noResultsThreads, resultsThreads, userStates))
    /\ Dispatched(h)
    /\ UNCHANGED <<analysisThreads, noResultsThreads, resultsThreads, userStates,
                   isConnected, mcpClient, bootPc>>
    /\ UNCHANGED <<pipeVars, runVars>>

\* llm_result_confirm up to the retry loop (app.ts:610-692): clears the
\* analysis tracking and announces the search. sendResponse falls back to
\* response_url when the send fails, and that request is not guarded.
ConfirmStart(h) ==
    /\ \E u \in Users, t \in Threads :
        /\ CanClick(h, t, "analysis")
        /\ LET an == ClearThreadTracking(analysisThreads, t)
               rec == NewHandler("confirm", u, t, <<>>, an, noResultsThreads,
                                 resultsThreads, userStates)
           IN  /\ analysisThreads' = an
               /\ \E sent \in BOOLEAN :
                    IF sent
                    THEN SetHandler(h, [rec EXCEPT !.said = {"searching"}, !.stage = "confirm",
                                                   !.cattempt = 1, !.pc = "get"])
                    ELSE SetHandler(h, Finish(rec, "unhandled", an, noResultsThreads,
                                              resultsThreads, userStates))
    /\ Dispatched(h)
    /\ UNCHANGED <<noResultsThreads, resultsThreads, userStates,
                   isConnected, mcpClient, bootPc, cards>>
    /\ UNCHANGED <<pipeVars, runVars>>

\* The text the confirm handler takes as originalMessage (app.ts:740-915):
\* the thread's first message (a placeholder stands in for it when the
\* history cannot be read).
ConfirmTexts(t) == {FirstMessageOf(t)}

\* The query llm_result_confirm hands to executeLinearSearch
\* (app.ts:937-945): query: originalMessage.
ConfirmSearchQuery(originalMessage, searchQuery) == originalMessage

\* llm_result_confirm inside an attempt (app.ts:704-945): the listTools
\* probe, whose errors are swallowed (the string "Not connected" marks the
\* client disconnected), the thread history, generateLinearSearchQuery and
\* the call of executeLinearSearch.
ConfirmPrepare(h) ==
    /\ At(h, "cf_list")
    /\ LET rec == handlers[h]
       IN  /\ \E notConnected \in BOOLEAN :
                IF notConnected
                THEN isConnected' = FALSE /\ mcpClient' = <<>>
                ELSE UNCHANGED <<isConnected, mcpClient>>
           /\ \E x \in ConfirmTexts(rec.thread) :
                SetHandler(h, [rec EXCEPT
                    !.text = x,
                    !.orig = x,
                    !.query = ConfirmSearchQuery(x, <<"generated", x>>),
                    !.stage = "search", !.attempt = 1, !.pc = "get"])
    /\ UNCHANGED <<analysisThreads, noResultsThreads, resultsThreads, userStates,
                   bootPc, cards, evCount, overlaps>>
    /\ UNCHANGED <<pipeVars, runVars>>

\* llm_result_edit up to its await (app.ts:986-1020): clears the analysis
\* tracking and puts the user in edit mode for the thread.
EditStart(h) ==
    /\ \E u \in Users, t \in Threads :
        /\ CanClick(h, t, "analysis")
        /\ LET an == ClearThreadTracking(analysisThreads, t)
               us == SetUserEditMode(userStates, u, ChannelOf(t), t, AnalysisCardText)
           IN  /\ analysisThreads' = an
               /\ userStates' = us
               /\ SetHandler(h, [NewHandler("edit", u, t, <<>>, an, noResultsThreads,
                                            resultsThreads, us) EXCEPT !.pc = "ed_post"])
    /\ Dispatched(h)
    /\ UNCHANGED <<noResultsThreads, resultsThreads, isConnected, mcpClient, bootPc, cards>>
    /\ UNCHANGED <<pipeVars, runVars>>

\* The prompt for more details is posted, or edit mode is cleared again
\* when posting fails (app.ts:1021-1038).
EditPost(h) ==
    /\ At(h, "ed_post")
    /\ LET rec == handlers[h]
       IN  \E posted \in BOOLEAN :
             IF posted
             THEN /\ userStates' = userStates
                  /\ cards' = [cards EXCEPT ![rec.thread] = @ \cup {"edit_prompt"}]
                  /\ SetHandler(h, Finish([rec EXCEPT !.said = {"edit_prompt"}], "edit_pending",
                         analysisThreads, noResultsThreads, resultsThreads, userStates))
             ELSE LET us == ClearUserEditMode(userStates, rec.user, ChannelOf(rec.thread))
                  IN  /\ userStates' = us
                      /\ cards' = cards
                      /\ SetHandler(h, Finish(rec, "edit_failed",
                             analysisThreads, noResultsThreads, resultsThreads, us))
    /\ UNCHANGED <<analysisThreads, noResultsThreads, resultsThreads,
                   isConnected, mcpClient, bootPc, evCount, overlaps>>
    /\ UNCHANGED <<pipeVars, runVars>>

\* llm_result_cancel (app.ts:1042-1081)
Cancel(h) ==
    /\ \E u \in Users, t \in Threads :
        /\ CanClick(h, t, "analysis")
        /\ LET an == ClearThreadTracking(analysisThreads, t)
           IN  /\ analysisThreads' = an
               /\ SetHandler(h, Finish(NewHandler("cancel", u, t, <<>>, an,
                          noResultsThreads, resultsThreads, userStates), "cancelled",
                      an, noResultsThreads, resultsThreads, userStates))
    /\ Dispatched(h)
    /\ UNCHANGED <<noResultsThreads, resultsThreads, userStates,
                   isConnected, mcpClient, bootPc, cards>>
    /\ UNCHANGED <<pipeVars, runVars>>

\* end_conversation (app.ts:1084-1123)
EndConversation(h) ==
    /\ \E u \in Users, t \in Threads :
        /\ CanClick(h, t, "noResults")
        /\ LET nr == ClearThreadTracking(noResultsThreads, t)
           IN  /\ noResultsThreads' = nr
               /\ SetHandler(h, Finish(NewHandler("end", u, t, <<>>, analysisThreads,
                          nr, resultsThreads, userStates), "ended",
                      analysisThreads, nr, resultsThreads, userStates))
    /\ Dispatched(h)
    /\ UNCHANGED <<analysisThreads, resultsThreads, userStates,
                   isConnected, mcpClient, bootPc, cards>>
    /\ UNCHANGED <<pipeVars, runVars>>

\* results_helpful (app.ts:1126-1170)
ResultsHelpful(h) ==
    /\ \E u \in Users, t \in Threads :
        /\ CanClick(h, t, "results")
        /\ LET rs == ClearThreadTracking(resultsThreads, t)
           IN  /\ resultsThreads' = rs
               /\ SetHandler(h, Finish(NewHandler("helpful", u, t, <<>>, analysisThreads,
                          noResultsThreads, rs, userStates), "helpful",
                      analysisThreads, noResultsThreads, rs, userStates))
    /\ Dispatched(h)
    /\ UNCHANGED <<analysisThreads, noResultsThreads, userStates,
                   isConnected, mcpClient, bootPc, cards>>
    /\ UNCHANGED <<pipeVars, runVars>>

SessionNext ==
    \/ BootConnect
    \/ \E h \in Slots : MessageDropped(h)
    \/ \E h \in Slots : MessageStart(h)
    \/ \E h \in Slots : Greet(h)
    \/ \E h \in Slots : AnalyzeInfer(h)
    \/ \E h \in Slots : AnalyzeShow(h)
    \/ \E h \in Slots : AnalyzeMark(h)
    \/ \E h \in Slots : Refine(h)
    \/ \E h \in Slots : GetClient(h)
    \/ \E h \in Slots : Connect(h)
    \/ \E h \in Slots : CheckClient(h)
    \/ \E h \in Slots : SearchList(h)
    \/ \E h \in Slots : SearchCall(h)
    \/ \E h \in Slots : SearchShow(h)
    \/ \E h \in Slots : FindStart(h)
    \/ \E h \in Slots : Ignore(h)
    \/ \E h \in Slots : ConfirmStart(h)
    \/ \E h \in Slots : ConfirmPrepare(h)
    \/ \E h \in Slots : EditStart(h)
    \/ \E h \in Slots : EditPost(h)
    \/ \E h \in Slots : Cancel(h)
    \/ \E h \in Slots : EndConversation(h)
    \/ \E h \in Slots : ResultsHelpful(h)
    \/ \E h \in Slots : Retire(h)

(***************************************************************************)
(* Part III: the pipeline entry point processMessageWithLLM and the node   *)
(* library of utils.ts                                                     *)
(***************************************************************************)

\* Longest list of file locators of a message.
MaxFiles == 3

\* Longest tool catalog.
MaxTools == 2

\* Texts a message is processed with.
RunTexts == {<<"checkout button broken on mobile">>, <<"m2">>}

\* File locators, with the extension path.extname finds in them.
FileLocators == {[url |-> "f1", ext |-> ".png"], [url |-> "f2", ext |-> ""]}

FileLists == UNION {[1..n -> FileLocators] : n \in 0..MaxFiles}

\* McpToolName.SearchIssues (utils.ts:299) and another tool of the catalog.
SearchIssues == "search_issues"
ToolNames == {SearchIssues, "create_issue"}

\* availableTools: lists of tool descriptors with distinct names.
Catalogs ==
    {s \in UNION {[1..n -> [name : ToolNames]] : n \in 0..MaxTools} :
        \A i, j \in 1..Len(s) : i # j => s[i].name # s[j].name}

\* null, where a record is expected.
NullValue == [null |-> TRUE]

\* The fixed result count of the search (utils.ts:310).
ResultCap == 10

\* mimeType of a file extension (utils.ts:214-218).
MimeOf(ext) ==
    CASE ext = ".png" -> "image/png"
      [] ext = ".gif" -> "image/gif"
      [] ext = ".webp" -> "image/webp"
      [] OTHER -> "image/jpeg"

\* The ImageContent pushed for a downloaded file (utils.ts:220-224):
\* `data:${mimeType};base64,${base64Image}`.
EncodeImage(file) ==
    [type |-> "input_image",
     image_url |-> <<"data:", MimeOf(file.ext), ";base64,", file.url>>,
     detail |-> "auto"]

\* (mutant of PushImage: the new image is put in front)
UnshiftImage(imageContents, image) == <<image>> \o imageContents

\* imageContents.push(image) (utils.ts:220)
PushImage(imageContents, image) == Append(imageContents, image)

\* (mutant of FindSearchTool: the first tool of the catalog is taken)
FindFirstTool(availableTools) ==
    IF availableTools = <<>> THEN NullValue ELSE availableTools[1]

\* availableTools.find((t) => t.name === McpToolName.SearchIssues)
\* (utils.ts:298-300); NullValue for undefined.
FindSearchTool(availableTools) ==
    IF \E i \in 1..Len(availableTools) : availableTools[i].name = SearchIssues
    THEN availableTools[CHOOSE i \in 1..Len(availableTools) :
                            availableTools[i].name = SearchIssues]
    ELSE NullValue

\* (mutant of SearchParameters: the count is passed as `limit`)
SearchParametersLimit(query) == [query |-> query, limit |-> ResultCap]

\* const parameters = { query: this.query, first: 10 } (utils.ts:310)
SearchParameters(query) == [query |-> query, first |-> ResultCap]

\* The descriptors TicketSearch returns (utils.ts:325-328, 331-335, 341-345).
FoundDescriptor(tool, parameters) == [tool |-> tool, parameters |-> parameters]
SearchFailedDescriptor ==
    [tool |-> NullValue, parameters |-> NullValue, error |-> "Failed to search Linear"]
UnavailableDescriptor ==
    [tool |-> NullValue, parameters |-> NullValue,
     error |-> "Linear search tool is currently unavailable."]

\* The descriptor processMessageWithLLM returns from its catch (utils.ts:516-522).
ProcessingFailedDescriptor ==
    [tool |-> NullValue, parameters |-> NullValue, error |-> "LLM processing failed"]

\* The nodes processMessageWithLLM registers, in this order (utils.ts:489-509).
EntryNodes ==
    AddNodeTo(AddNodeTo(AddNodeTo(AddNodeTo(<<>>,
        "processImages", <<>>),
        "queryLLM", <<"processImages">>),
        "linearSearch", <<"queryLLM">>),
        "rateMatching", <<"linearSearch">>)

\* context.results / context.inputs are kept as lists of [key, value] in
\* insertion order.
KeysOf(entries) == {entries[i].key : i \in 1..Len(entries)}

HasKey(entries, key) == key \in KeysOf(entries)

ValueOf(entries, key) ==
    entries[CHOOSE i \in 1..Len(entries) : entries[i].key = key].value

\* (mutant of StoreResult: the new entry is put in front)
PrependResult(entries, key, value) == <<[key |-> key, value |-> value]>> \o entries

\* context.results[nodeId] = value (utils.ts:130), and the writes the search
\* node makes itself (utils.ts:322, 348).
StoreResult(entries, key, value) == Append(entries, [key |-> key, value |-> value])

\* Where a run is when the node at position idx of the order starts.
NodePc(order, idx) ==
    IF idx > Len(order) THEN "returned"
    ELSE CASE order[idx] = "processImages" -> "images"
           [] order[idx] = "queryLLM" -> "query"
           [] order[idx] = "linearSearch" -> "search"
           [] OTHER -> "rate"

EntryInit ==
    /\ rPc = "idle"
    /\ rText = <<>>
    /\ rFiles = <<>>
    /\ rTools = <<>>
    /\ rOrder = <<>>
    /\ rIdx = 1
    /\ rFetched = <<>>
    /\ rImages = <<>>
    /\ rResults = <<>>
    /\ rInputs = <<>>
    /\ rRemote = <<>>
    /\ rFailed = {}
    /\ rReturn = NullValue
    /\ rResponse = NullValue
    /\ rLog = <<>>

\* The session state a pipeline run leaves alone.
sessOther == <<analysisThreads, noResultsThreads, resultsThreads, userStates,
               bootPc, cards, handlers, evCount, overlaps>>

\* processMessageWithLLM(text, availableTools, files, sayFn) up to its first
\* await, the read of the prompt file (utils.ts:476-494).
EntryCall ==
    /\ rPc = "idle"
    /\ \E t \in RunTexts, tools \in Catalogs, files \in FileLists :
        /\ rText' = t
        /\ rTools' = tools
        /\ rFiles' = files
    /\ rPc' = "prompt"
    /\ UNCHANGED <<rOrder, rIdx, rFetched, rImages, rResults, rInputs, rRemote,
                   rFailed, rReturn, rResponse, rLog>>
    /\ UNCHANGED <<pipeVars, sessVars>>
\* (mutant: the error leaves processMessageWithLLM)
EntryThrowsPastCatch(step) ==
    /\ rPc' = "returned"
    /\ rFailed' = rFailed \cup {step}
    /\ rReturn' = NullValue

\* The run ends in the catch of processMessageWithLLM (utils.ts:516-522).
EntryThrows(step) ==
    /\ rPc' = "returned"
    /\ rFailed' = rFailed \cup {step}
    /\ rReturn' = ProcessingFailedDescriptor

\* The node at rIdx has returned value: the engine stores it and starts the
\* next node, or execute returns and processMessageWithLLM returns
\* results[linearSearchId] (utils.ts:127-137, 512-515). `results` holds the
\* writes the node made itself.
EntryNodeDone(results, value) ==
    LET stored == StoreResult(results, rOrder[rIdx], value)
    IN  /\ rResults' = stored
        /\ rIdx' = rIdx + 1
        /\ rPc' = NodePc(rOrder, rIdx + 1)
        /\ rReturn' = IF rIdx + 1 > Len(rOrder) THEN ValueOf(stored, "linearSearch")
                      ELSE rReturn

\* The prompt file is read, or the read fails. Then the other nodes are
\* added and execute() determines the order and starts the first node
\* (utils.ts:494-512, 116-128).
EntryReadPrompt ==
    /\ rPc = "prompt"
    /\ \E ok \in BOOLEAN :
         IF ok
         THEN LET r == DetermineExecutionOrder(EntryNodes)
              IN  /\ rOrder' = r.order
                  /\ rPc' = NodePc(r.order, 1)
                  /\ UNCHANGED <<rFailed, rReturn>>
         ELSE /\ EntryThrows("prompt")
              /\ UNCHANGED rOrder
    /\ UNCHANGED <<rText, rFiles, rTools, rIdx, rFetched, rImages, rResults, rInputs, rRemote,
                   rResponse, rLog>>
    /\ UNCHANGED <<pipeVars, sessVars>>

\* ImageIngestion: the download of one file settles (utils.ts:188-228). A
\* failed download is logged and the loop goes on.
EntryFetch ==
    /\ rPc = "images"
    /\ Len(rFetched) < Len(rFiles)
    /\ \E ok \in BOOLEAN :
        /\ rFetched' = Append(rFetched, ok)
        /\ rImages' = IF ok THEN PushImage(rImages, EncodeImage(rFiles[Len(rFetched) + 1]))
                      ELSE rImages
    /\ UNCHANGED <<rPc, rText, rFiles, rTools, rOrder, rIdx, rResults, rInputs, rRemote,
                   rFailed, rReturn, rResponse, rLog>>
    /\ UNCHANGED <<pipeVars, sessVars>>

\* ImageIngestion returns: [] at once for no files (utils.ts:178), else
\* imageContents after the loop (utils.ts:231).
EntryImagesDone ==
    /\ rPc = "images"
    /\ Len(rFetched) = Len(rFiles)
    /\ EntryNodeDone(rResults, IF rFiles = <<>> THEN <<>> ELSE rImages)
    /\ UNCHANGED <<rText, rFiles, rTools, rOrder, rFetched, rImages, rInputs, rRemote, rFailed,
                   rResponse, rLog>>
    /\ UNCHANGED <<pipeVars, sessVars>>

\* What the inference request of ModelQuery can answer: text that parses as
\* JSON, or text that does not.
LlmAnswers == {[kind |-> "llm_text", json |-> j] : j \in BOOLEAN}

\* What a node did: it read context.results[what], sent an inference
\* request, or called sayFn with a message.
ReadEvent(node, key) == [kind |-> "read", node |-> node, what |-> key]
InferEvent(node) == [kind |-> "infer", node |-> node, what |-> "request"]
SayEvent(node, message) == [kind |-> "say", node |-> node, what |-> message]

\* What a step of ModelQuery or RelevanceRating leaves alone.
nodeFixed == <<rText, rFiles, rTools, rOrder, rFetched, rImages, rInputs, rRemote>>

\* (mutant of QueryOpening: the request is sent a second time)
QueryOpeningTwice(log) ==
    log \o <<ReadEvent("queryLLM", "processImages"), InferEvent("queryLLM"),
             InferEvent("queryLLM")>>

\* ModelQuery up to its await: it reads context.results.processImages and
\* sends one inference request (utils.ts:252-272).
QueryOpening(log) ==
    log \o <<ReadEvent("queryLLM", "processImages"), InferEvent("queryLLM")>>

EntryQuery ==
    /\ rPc = "query"
    /\ rLog' = QueryOpening(rLog)
    /\ rPc' = "query_wait"
    /\ UNCHANGED <<rResults, rIdx, rFailed, rReturn, rResponse>>
    /\ UNCHANGED nodeFixed
    /\ UNCHANGED <<pipeVars, sessVars>>

\* await llm.responses.create settles (utils.ts:261-276): with an answer,
\* which is announced through sayFn, or with a throw the node passes on.
EntryQueryAnswer ==
    /\ rPc = "query_wait"
    /\ \/ \E answer \in LlmAnswers :
            /\ rResponse' = answer
            /\ rLog' = Append(rLog, SayEvent("queryLLM", "answer"))
            /\ rPc' = "query_say"
            /\ UNCHANGED <<rFailed, rReturn>>
       \/ /\ EntryThrows("query")
          /\ UNCHANGED <<rResponse, rLog>>
    /\ UNCHANGED <<rResults, rIdx>>
    /\ UNCHANGED nodeFixed
    /\ UNCHANGED <<pipeVars, sessVars>>

\* await sayFn settles (utils.ts:276-277): the node returns the answer, or
\* passes on the throw of sayFn.
EntryQuerySaid ==
    /\ rPc = "query_say"
    /\ \/ /\ EntryNodeDone(rResults, rResponse)
          /\ UNCHANGED rFailed
       \/ /\ EntryThrows("query_say")
          /\ UNCHANGED <<rResults, rIdx>>
    /\ UNCHANGED <<rResponse, rLog>>
    /\ UNCHANGED nodeFixed
    /\ UNCHANGED <<pipeVars, sessVars>>

\* (mutant of EntrySearchFails: the throw of the remote call is passed on)
EntrySearchRethrows ==
    /\ EntryThrows("search")
    /\ UNCHANGED <<rResults, rIdx, rInputs>>

\* TicketSearch fails softly after a remote call threw (utils.ts:329-336).
EntrySearchFails ==
    /\ EntryNodeDone(rResults, SearchFailedDescriptor)
    /\ rFailed' = rFailed \cup {"search"}
    /\ rInputs' = rInputs

\* TicketSearch up to its first await (utils.ts:293-307): without the search
\* tool it writes the error result to context.inputs and returns it; with
\* it, it calls getMcpClient(), which returns the cached client or starts to
\* connect (app.ts:2164-2171, 2079-2082).
EntrySearchStart ==
    /\ rPc = "search"
    /\ IF FindSearchTool(rTools) = NullValue
       THEN /\ rInputs' = StoreResult(rInputs, "linearSearchResult", UnavailableDescriptor)
            /\ EntryNodeDone(rResults, UnavailableDescriptor)
            /\ UNCHANGED <<rRemote, rFailed, isConnected, mcpClient>>
       ELSE /\ rRemote' = Append(rRemote, "getMcpClient")
            /\ IF ~NeedsConnect(isConnected)
               THEN /\ UNCHANGED <<isConnected, mcpClient>>
                    /\ IF mcpClient = <<>>
                       THEN EntrySearchFails
                       ELSE /\ rPc' = "search_call"
                            /\ UNCHANGED <<rResults, rIdx, rReturn, rFailed, rInputs>>
               ELSE /\ isConnected' = FALSE
                    /\ mcpClient' = <<>>
                    /\ rPc' = "search_connect"
                    /\ UNCHANGED <<rResults, rIdx, rReturn, rFailed, rInputs>>
    /\ UNCHANGED <<rText, rFiles, rTools, rOrder, rFetched, rImages, rResponse, rLog>>
    /\ UNCHANGED <<pipeVars, sessOther>>

\* await client.connect(transport) settles (app.ts:2141-2161).
EntrySearchConnect ==
    /\ rPc = "search_connect"
    /\ \/ /\ isConnected' = TRUE
          /\ mcpClient' = <<"run">>
          /\ rPc' = "search_check"
          /\ UNCHANGED <<rResults, rIdx, rReturn, rFailed, rInputs>>
       \/ /\ isConnected' = FALSE
          /\ mcpClient' = <<>>
          /\ EntrySearchFails
    /\ UNCHANGED <<rText, rFiles, rTools, rOrder, rFetched, rImages, rRemote, rResponse, rLog>>
    /\ UNCHANGED <<pipeVars, sessOther>>

\* getMcpClient after await initializeMcpClient() (app.ts:2173-2179).
EntrySearchCheck ==
    /\ rPc = "search_check"
    /\ IF mcpClient = <<>> \/ ~isConnected
       THEN EntrySearchFails
       ELSE /\ rPc' = "search_call"
            /\ UNCHANGED <<rResults, rIdx, rReturn, rFailed, rInputs>>
    /\ UNCHANGED <<rText, rFiles, rTools, rOrder, rFetched, rImages, rRemote, rResponse, rLog>>
    /\ UNCHANGED <<pipeVars, sessVars>>

\* The raw result of the search tool for the parameters it was called with.
RawSearchResult(parameters) == [kind |-> "tool_result", arguments |-> parameters]

\* await mcpClient.callTool(...) settles (utils.ts:310-336): the raw result
\* is stored under linearSearchResults and the descriptor returned; a throw
\* gives the soft failure.
EntrySearchCall ==
    /\ rPc = "search_call"
    /\ rRemote' = Append(rRemote, "callTool")
    /\ LET parameters == SearchParameters(rText)
       IN  \/ /\ EntryNodeDone(StoreResult(rResults, "linearSearchResults",
                                           RawSearchResult(parameters)),
                               FoundDescriptor(FindSearchTool(rTools), parameters))
              /\ UNCHANGED <<rFailed, rInputs>>
           \/ EntrySearchFails
    /\ UNCHANGED <<rText, rFiles, rTools, rOrder, rFetched, rImages, rResponse, rLog>>
    /\ UNCHANGED <<pipeVars, sessVars>>

\* (mutant of RateOpening: the preview is not announced)
RateOpeningSilent(log) ==
    Append(log, ReadEvent("rateMatching", "linearSearchResults"))

\* RelevanceRating up to its first await: it reads
\* context.results.linearSearchResults, formats the preview and calls sayFn
\* with it (utils.ts:367-416).
RateOpening(log) ==
    log \o <<ReadEvent("rateMatching", "linearSearchResults"),
             SayEvent("rateMatching", "preview")>>

EntryRate ==
    /\ rPc = "rate"
    /\ rLog' = RateOpening(rLog)
    /\ rPc' = "rate_preview"
    /\ UNCHANGED <<rResults, rIdx, rFailed, rReturn, rResponse>>
    /\ UNCHANGED nodeFixed
    /\ UNCHANGED <<pipeVars, sessVars>>

\* (mutant: the rating goes on without a raw search result)
EntryRatePreviewedThenRates ==
    /\ rPc = "rate_preview"
    /\ \/ /\ rPc' = "rate_prompt"
          /\ UNCHANGED <<rResults, rIdx, rFailed, rReturn>>
       \/ /\ EntryThrows("rate_preview")
          /\ UNCHANGED <<rResults, rIdx>>
    /\ UNCHANGED <<rResponse, rLog>>
    /\ UNCHANGED nodeFixed
    /\ UNCHANGED <<pipeVars, sessVars>>

\* await sayFn(preview) settles (utils.ts:416-425): a throw is passed on;
\* without a raw search result (linearIssues is []) the node returns a fixed
\* text; with one it starts to read the rating prompt.
EntryRatePreviewed ==
    /\ rPc = "rate_preview"
    /\ \/ /\ ~HasKey(rResults, "linearSearchResults")
          /\ EntryNodeDone(rResults, [kind |-> "no_tickets_text"])
          /\ UNCHANGED rFailed
       \/ /\ HasKey(rResults, "linearSearchResults")
          /\ rPc' = "rate_prompt"
          /\ UNCHANGED <<rResults, rIdx, rFailed, rReturn>>
       \/ /\ EntryThrows("rate_preview")
          /\ UNCHANGED <<rResults, rIdx>>
    /\ UNCHANGED <<rResponse, rLog>>
    /\ UNCHANGED nodeFixed
    /\ UNCHANGED <<pipeVars, sessVars>>

\* await readFile(rating prompt) settles (utils.ts:425-461): a throw is
\* passed on; else the node reads context.results.queryLLM and parses it as
\* JSON, which throws for other text, and sends the rating request.
EntryRatePrompt ==
    /\ rPc = "rate_prompt"
    /\ \/ /\ IF ValueOf(rResults, "queryLLM").json
             THEN /\ rLog' = rLog \o <<ReadEvent("rateMatching", "queryLLM"),
                                       InferEvent("rateMatching")>>
                  /\ rPc' = "rate_wait"
                  /\ UNCHANGED <<rFailed, rReturn>>
             ELSE /\ rLog' = Append(rLog, ReadEvent("rateMatching", "queryLLM"))
                  /\ EntryThrows("rate_parse")
       \/ /\ EntryThrows("rate_prompt")
          /\ UNCHANGED rLog
    /\ UNCHANGED <<rResults, rIdx, rResponse>>
    /\ UNCHANGED nodeFixed
    /\ UNCHANGED <<pipeVars, sessVars>>

\* await llm.responses.create settles (utils.ts:451-468): the rating is
\* announced through sayFn, or the throw is passed on.
EntryRateAnswer ==
    /\ rPc = "rate_wait"
    /\ \/ /\ rResponse' = [kind |-> "rating_text"]
          /\ rLog' = Append(rLog, SayEvent("rateMatching", "rating"))
          /\ rPc' = "rate_say"
          /\ UNCHANGED <<rFailed, rReturn>>
       \/ /\ EntryThrows("rate")
          /\ UNCHANGED <<rResponse, rLog>>
    /\ UNCHANGED <<rResults, rIdx>>
    /\ UNCHANGED nodeFixed
    /\ UNCHANGED <<pipeVars, sessVars>>

\* await sayFn(rating) settles (utils.ts:468-470).
EntryRateSaid ==
    /\ rPc = "rate_say"
    /\ \/ /\ EntryNodeDone(rResults, rResponse)
          /\ UNCHANGED rFailed
       \/ /\ EntryThrows("rate_say")
          /\ UNCHANGED <<rResults, rIdx>>
    /\ UNCHANGED <<rResponse, rLog>>
    /\ UNCHANGED nodeFixed
    /\ UNCHANGED <<pipeVars, sessVars>>

EntryNext ==
    \/ BootConnect
    \/ EntryCall
    \/ EntryReadPrompt
    \/ EntryFetch
    \/ EntryImagesDone
    \/ EntryQuery
    \/ EntryQueryAnswer
    \/ EntryQuerySaid
    \/ EntrySearchStart
    \/ EntrySearchConnect
    \/ EntrySearchCheck
    \/ EntrySearchCall
    \/ EntryRate
    \/ EntryRatePreviewed
    \/ EntryRatePrompt
    \/ EntryRateAnswer
    \/ EntryRateSaid

(***************************************************************************)
(* Specifications                                                          *)
(***************************************************************************)
\* The state after the module is loaded: no pipeline built, no event served.
Init == PipelineInit /\ SessionInit /\ EntryInit

\* The pipeline runs on its own; the session state stays as constructed.
SpecPipeline == Init /\ [][PipelineNext]_vars

\* The bot serves Slack events; no pipeline is built on these paths.
SpecSession == Init /\ [][SessionNext]_vars

\* One call of the pipeline entry point, next to the connection attempt
\* made when the module is loaded.
SpecEntry == Init /\ [][EntryNext]_vars

\* The pipeline with its scheduling: the loop of execute goes on whenever it
\* can, and the promise of every node invoked settles.
SpecPipelineLive ==
    /\ Init /\ [][PipelineNext]_vars
    /\ WF_vars(NodeStart)
    /\ WF_vars(NodeSucceeds \/ NodeFails)
    /\ WF_vars(NodeNotCallable)

(***************************************************************************)
(* Part II: properties                                                     *)
(***************************************************************************)

\* The handler records of one kind that are in a slot.
HandlersOf(kinds) == {handlers[h] : h \in {g \in Slots : handlers[g].kind \in kinds}}

\* The branch the priority order selects for what was tracked when the
\* message arrived.
ExpectedRule(pre) ==
    IF pre.edit THEN 1
    ELSE IF pre.analysis THEN 2
    ELSE IF pre.noResults THEN 3
    ELSE IF pre.results THEN 4
    ELSE 5

\* What the branch does, and the tracking it leaves behind when it starts.
ActionsOfRule(r) ==
    CASE r \in {1, 2} -> {"analysis"}
      [] r \in {3, 4} -> {"refine", "search"}
      [] OTHER -> {"greeting"}

TrackingAfterRule(r, pre) ==
    CASE r = 1 -> [pre EXCEPT !.edit = FALSE]
      [] r = 2 -> [pre EXCEPT !.analysis = FALSE]
      [] r = 3 -> [pre EXCEPT !.noResults = FALSE]
      [] r = 4 -> [pre EXCEPT !.results = FALSE]
      [] OTHER -> pre

\* C4: on each inbound user message the transition rules are evaluated in
\* priority order (EditPending, AnalysisDisplayed, NoResultsPending,
\* ResultsDisplayed, else the greeting) and only the first matching rule is
\* applied: the handler consumes that rule's tracking entry and no other, and
\* does that rule's action and no other.
C4_FirstMatchingRule ==
    \A rec \in HandlersOf({"message"}) :
        /\ rec.rule = ExpectedRule(rec.pre)
        /\ rec.mid = TrackingAfterRule(rec.rule, rec.pre)
        /\ rec.acts \subseteq ActionsOfRule(rec.rule)
        /\ (rec.pc = "done" /\ rec.outcome # "unhandled") => rec.acts # {}

\* A message of a user who is EditPending, in a thread that is
\* AnalysisDisplayed, was handled by the edit rule.
C4_Witness ==
    \E rec \in HandlersOf({"message"}) :
        /\ rec.pc = "done"
        /\ rec.pre.edit /\ rec.pre.analysis
        /\ rec.rule = 1
        /\ rec.acts = {"analysis"}

\* C5 (as stated): a user message in a thread that is AnalysisDisplayed
\* clears that thread's AnalysisDisplayed tracking and never sends the
\* greeting card, whatever else is tracked for the sender.
C5_AnalysisThreadMessage ==
    \A rec \in HandlersOf({"message"}) :
        rec.pre.analysis => (~rec.mid.analysis /\ "greeting" \notin rec.acts)

\* C5 (amended): a user message in a thread that is AnalysisDisplayed never
\* sends the greeting card; it clears that thread's AnalysisDisplayed
\* tracking when the sender is not EditPending in the channel, and when the
\* sender is EditPending it clears the edit mode instead and leaves the
\* thread's AnalysisDisplayed tracking in place.
C5_AnalysisThreadMessageUnlessEditing ==
    \A rec \in HandlersOf({"message"}) :
        rec.pre.analysis =>
            /\ "greeting" \notin rec.acts
            /\ rec.acts \subseteq {"analysis"}
            /\ ~rec.pre.edit => ~rec.mid.analysis
            /\ rec.pre.edit => (rec.mid.analysis /\ ~rec.mid.edit)

\* A message of a user who is not EditPending arrived in a thread that was
\* AnalysisDisplayed, and its handler has ended.
C5_Witness ==
    \E rec \in HandlersOf({"message"}) :
        /\ rec.pc = "done"
        /\ rec.pre.analysis /\ ~rec.pre.edit
        /\ ~rec.mid.analysis
        /\ "analysis" \in rec.acts

\* The phases tracked for user u and thread t.
PhasesOf(u, t) ==
    {p \in {"EditPending", "AnalysisDisplayed", "NoResultsPending", "ResultsDisplayed"} :
        \/ p = "EditPending" /\ IsUserInEditMode(u, ChannelOf(t))
                             /\ userStates[GetUserStateKey(u, ChannelOf(t))].threadTs = t
        \/ p = "AnalysisDisplayed" /\ HasThread(analysisThreads, t)
        \/ p = "NoResultsPending" /\ HasThread(noResultsThreads, t)
        \/ p = "ResultsDisplayed" /\ HasThread(resultsThreads, t)}

\* C6: in every reachable state, for every (user, thread) key at most one of
\* the phases EditPending, AnalysisDisplayed, NoResultsPending and
\* ResultsDisplayed is tracked.
C6_AtMostOnePhase ==
    \A u \in Users, t \in Threads : Cardinality(PhasesOf(u, t)) <= 1

\* C7: the search a refinement message causes is run with the refined query
\* generated from the original query and the new input, not with the
\* original query alone nor with the new input alone.
C7_RefinedQuerySearched ==
    \A rec \in HandlersOf({"message"}) :
        rec.rule \in {3, 4} =>
            \A q \in rec.toolQueries :
                /\ q = rec.refined
                /\ q # rec.orig
                /\ q # rec.text

\* C8: a confirm click clears the thread's AnalysisDisplayed tracking, runs
\* the ticket search followed by the relevance rating, and when the handler
\* has finished the thread is NoResultsPending after a search without
\* matches and ResultsDisplayed after a search with matches.
C8_ConfirmSearchesThenRates ==
    \A rec \in HandlersOf({"confirm"}) :
        /\ ~rec.mid.analysis
        /\ (rec.pc = "done" /\ rec.outcome \in {"search_empty", "search_hits"}) =>
              /\ {"search", "rating"} \subseteq rec.acts
              /\ rec.outcome = "search_empty" => rec.post.noResults
              /\ rec.outcome = "search_hits" => rec.post.results

\* C9: after a cancel, dismiss, end-conversation or results-helpful click
\* in a thread no tracking entry of any phase remains for that thread.
C9_ClickLeavesThreadIdle ==
    \A rec \in HandlersOf({"cancel", "ignore", "end", "helpful"}) :
        rec.pc = "done" =>
            /\ ~rec.post.analysis
            /\ ~rec.post.noResults
            /\ ~rec.post.results

\* The apologies the handlers send when a call failed.
ErrorMessages == {"analysis_error", "search_error"}

\* C10: when an inference or search call throws inside a transition, the
\* handler sends a user-visible error message and ends with nothing tracked
\* for its thread and user: not AnalysisDisplayed, NoResultsPending or
\* ResultsDisplayed, nor EditPending.
C10_FailureLeavesStateCleared ==
    \A h \in Slots :
        (handlers[h].pc = "done" /\ handlers[h].failed # {}) =>
            /\ handlers[h].said \cap ErrorMessages # {}
            /\ handlers[h].post = NoSnapshot

\* C11: for one triggering event the sequence get connection, list tools,
\* call tool is attempted at most twice: a handler invocation makes at most
\* MaxAttempts getMcpClient() calls and at most MaxAttempts calls of the
\* search tool, on the confirm path too.
C11_AtMostTwoAttempts ==
    \A h \in Slots :
        /\ handlers[h].getCalls <= MaxAttempts
        /\ handlers[h].toolCalls <= MaxAttempts

\* The thrown values on which the code invalidates the cached connection
\* (markAsDisconnected at app.ts:1721-1727 and 1910-1912).
Invalidating(e) == IsConnectionError(e) \/ IsNotConnectedString(e)

\* C12: a search whose first attempt fails with a connectivity error is
\* retried exactly once more; when it fails for good on such an error, the
\* sequence was attempted exactly MaxAttempts times and the apology was sent.
C12_ConnectivityErrorRetriedOnce ==
    \A h \in Slots :
        LET rec == handlers[h]
        IN  (rec.pc = "done" /\ Invalidating(rec.thrown)) =>
                /\ rec.getCalls = MaxAttempts
                /\ "search_error" \in rec.said

\* C13: a getMcpClient() call that finds the connection invalidated
\* (markAsDisconnected, no successful connect since) makes exactly one
\* connect attempt, and a call that finds it connected makes none.
C13_OneConnectPerInvalidatedGet ==
    \A h \in Slots :
        LET rec == handlers[h]
        IN  /\ rec.getFound = "set" => rec.getConnects = 0
            /\ (rec.getFound = "unset" /\ rec.pc # "connect") => rec.getConnects = 1
            /\ rec.pc = "connect" => (rec.getFound = "unset" /\ rec.getConnects = 0)

\* C13 witness: the first attempt of a search ended on a connection error,
\* which invalidated the connection, and the getMcpClient() call of the
\* second attempt has reconnected once.
C13_Witness ==
    \E h \in Slots :
        /\ handlers[h].attempt = 2
        /\ handlers[h].pc = "check"
        /\ handlers[h].getFound = "unset"
        /\ handlers[h].getConnects = 1
        /\ isConnected

\* The messages a handler sends once a step has failed: the apologies, the
\* report of an unusable search payload, and the cards of the search that
\* follows a failed refinement request.
MessagesAfterFailure ==
    {"parse_sorry", "analysis_error", "search_error", "payload_problem", "noResults", "results"}

\* C14: a handler invocation in which an inference, search, connection or
\* parsing step failed has, when it ends, posted at least one message about
\* it in the thread; no failure path ends silently.
C14_NoSilentDrop ==
    \A h \in Slots :
        LET rec == handlers[h]
        IN  (rec.pc = "done" /\ rec.failed # {}) =>
                rec.said \cap MessagesAfterFailure # {}

\* C20: an edit click puts the clicking (user, channel) in edit mode,
\* records the thread of the clicked card in that entry, and leaves the
\* thread without analysis tracking.
C20_EditClickSetsEditPending ==
    [][\A h \in Slots :
          (handlers[h].kind # "edit" /\ handlers'[h].kind = "edit") =>
              LET rec == handlers'[h]
                  key == GetUserStateKey(rec.user, ChannelOf(rec.thread))
              IN  /\ key \in DOMAIN userStates'
                  /\ userStates'[key].isInEditMode
                  /\ userStates'[key].threadTs = rec.thread
                  /\ userStates'[key].channelId = ChannelOf(rec.thread)
                  /\ ~HasThread(analysisThreads', rec.thread)]_vars

\* C20 witness: an edit click on the card of a thread that was
\* AnalysisDisplayed has just been handled.
C20_Witness ==
    \E h \in Slots :
        LET rec == handlers[h]
            key == GetUserStateKey(rec.user, ChannelOf(rec.thread))
        IN  /\ rec.kind = "edit" /\ rec.pc = "ed_post"
            /\ rec.pre.analysis /\ ~rec.pre.edit
            /\ ~rec.mid.analysis /\ rec.mid.edit
            /\ key \in DOMAIN userStates
            /\ userStates[key].threadTs = rec.thread
            /\ ~HasThread(analysisThreads, rec.thread)

(***************************************************************************)
(* Part I: properties (continued)                                          *)
(***************************************************************************)

\* C19: when the dependency graph of the registered nodes has a cycle (a
\* node that depends on itself included), execute fails before any node's
\* execute function is invoked.
C19_CycleFailsBeforeAnyNode ==
    (pPhase # "building" /\ ~Acyclic(pNodes)) =>
        /\ pPhase = "threw"
        /\ pInvoked = <<>>

\* The node of this id has completed: its result is in the context, or it
\* is the node that failed.
NodeCompleted(id) ==
    \/ \E i \in 1..Len(pResults) : pResults[i].id = id
    \/ pFailedAt # 0 /\ pOrder[pFailedAt] = id

\* The nodes whose execute was started and has not completed.
NodesExecuting == {i \in 1..Len(pInvoked) : ~NodeCompleted(pInvoked[i])}

\* C21: within a run at most one node is executing at any time, and a
\* node's execute is started only after the node before it in the resolved
\* order has completed, by success or by failure, whether or not the two
\* depend on each other.
C21_OneNodeAtATime ==
    /\ Cardinality(NodesExecuting) <= 1
    /\ \A i \in 1..Len(pInvoked) :
          /\ pInvoked[i] = pOrder[i]
          /\ i > 1 => \E j \in 1..Len(pResults) : pResults[j].id = pOrder[i - 1]

\* C21 witness: of two nodes without dependencies the first has completed
\* and the second is executing.
C21_Witness ==
    /\ pPhase = "running"
    /\ Len(pNodes) = 2
    /\ pNodes[1].deps = <<>> /\ pNodes[2].deps = <<>>
    /\ Len(pInvoked) = 2
    /\ Len(pResults) = 1
    /\ NodesExecuting = {2}

NoDuplicates(seq) == \A i, j \in 1..Len(seq) : seq[i] = seq[j] => i = j

\* Some registered node reaches itself along declared dependencies.
HasCycle(nodes) == ~Acyclic(nodes)

\* execute has returned or thrown.
ExecuteEnded == pPhase \in {"returned", "threw"}

\* C38: determineExecutionOrder comes to an end for every set of registered
\* nodes, with cycles and self-dependencies too: it throws, or gives an
\* order that holds every registered id once. execute invokes each
\* registered node at most once, and once the order is determined it
\* returns or throws, given that every node invoked settles.
C38_ExecuteTerminates ==
    /\ [](LET r == DetermineExecutionOrder(pNodes)
          IN  /\ r.err = NoErr =>
                    /\ NoDuplicates(r.order)
                    /\ RegisteredIds(pNodes) \subseteq SeqToSet(r.order)
              /\ NoDuplicates(pOrder)
              /\ NoDuplicates(pInvoked)
              /\ SeqToSet(pInvoked) \subseteq RegisteredIds(pNodes))
    /\ (pPhase = "running") ~> ExecuteEnded

\* C38 witness: a run over a graph with a dependency cycle has ended with
\* every node invoked once.
C38_Witness ==
    /\ pPhase = "returned"
    /\ HasCycle(pNodes)
    /\ Len(pNodes) = 3
    /\ Len(pInvoked) = 3

(***************************************************************************)
(* Part III: properties                                                    *)
(***************************************************************************)

\* The images of the files handled so far whose download succeeded, in the
\* order of the files.
RECURSIVE ImagesOfFetched(_, _, _)
ImagesOfFetched(files, fetched, i) ==
    IF i > Len(fetched) THEN <<>>
    ELSE (IF fetched[i] THEN <<EncodeImage(files[i])>> ELSE <<>>)
         \o ImagesOfFetched(files, fetched, i + 1)

\* C15: the ImageIngestion node never fails, and its result is the list of
\* the encoded images of exactly the files whose download succeeded, in the
\* order of the input; for no files it is the empty list.
C15_ImagesOfSucceededFetches ==
    /\ "images" \notin rFailed
    /\ rPc = "images" => rImages = ImagesOfFetched(rFiles, rFetched, 1)
    /\ rIdx > 1 =>
          /\ Len(rFetched) = Len(rFiles)
          /\ rResults[1].key = "processImages"
          /\ rResults[1].value = ImagesOfFetched(rFiles, rFetched, 1)
          /\ rFiles = <<>> => rResults[1].value = <<>>

\* C15 witness: of three files the second download failed, and the result
\* holds the images of the first and the third.
C15_Witness ==
    /\ rIdx > 1
    /\ Len(rFiles) = 3
    /\ rFiles[1] # rFiles[3]
    /\ rFetched = <<TRUE, FALSE, TRUE>>
    /\ rResults[1].value = <<EncodeImage(rFiles[1]), EncodeImage(rFiles[3])>>

\* The catalog has an entry named as the search tool.
HasSearchEntry(tools) == \E i \in 1..Len(tools) : tools[i].name = SearchIssues

\* C16: with a catalog that has no entry named as the search tool, the
\* TicketSearch node returns {tool: null, parameters: null, error:
\* "...unavailable"} and makes no remote call, neither getMcpClient nor
\* callTool.
C16_NoToolNoRemoteCall ==
    ~HasSearchEntry(rTools) =>
        /\ rRemote = <<>>
        /\ HasKey(rResults, "linearSearch") =>
              ValueOf(rResults, "linearSearch") = UnavailableDescriptor

\* C16 witness: TicketSearch has returned for a catalog that holds another
\* tool only.
C16_Witness ==
    /\ rTools = <<[name |-> "create_issue"]>>
    /\ HasKey(rResults, "linearSearch")
    /\ ValueOf(rResults, "linearSearch").tool = NullValue
    /\ ValueOf(rResults, "linearSearch").error = "Linear search tool is currently unavailable."
    /\ rRemote = <<>>

\* The descriptor of a search for text t with the catalog's search tool.
SearchDescriptorFor(t) ==
    [tool |-> [name |-> SearchIssues], parameters |-> [query |-> t, first |-> 10]]

BeforeSearchCompletes ==
    rPc \in {"prompt", "images", "query", "query_wait", "query_say", "search",
             "search_connect", "search_check", "search_call"}

C22_OnlyOwnResultWritten ==
    /\ rInputs = <<>>
    /\ KeysOf(rResults) \subseteq RegisteredIds(EntryNodes)
    /\ \A i, j \in 1..Len(rResults) : i # j => rResults[i].key # rResults[j].key
    /\ (rPc = "returned" /\ rFailed = {}) => KeysOf(rResults) = RegisteredIds(EntryNodes)

\* The node an entry of context.results belongs to: the node of that id, or
\* TicketSearch for the raw result it stores itself (utils.ts:322).
WriterOf(key) == IF key = "linearSearchResults" THEN "linearSearch" ELSE key

\* C23: every read of context.results a node makes is of an entry that
\* belongs to a node it declares in its dependencies.
C23_ReadsOnlyDeclaredDependencies ==
    \A i \in 1..Len(rLog) :
        rLog[i].kind = "read" =>
            WriterOf(rLog[i].what) \in SeqToSet(DepsOf(EntryNodes, rLog[i].node))

IsSay(e) == e.kind = "say"

\* The sayFn calls of the run, in order.
SaidOf(log) == SelectSeq(log, IsSay)

IsPrefix(a, b) == Len(a) <= Len(b) /\ a = SubSeq(b, 1, Len(a))

\* The position of the first occurrence of event e in the log, 0 if none.
FirstAt(log, e) ==
    IF \E i \in 1..Len(log) : log[i] = e
    THEN CHOOSE i \in 1..Len(log) : log[i] = e /\ \A j \in 1..(i - 1) : log[j] # e
    ELSE 0

\* C24: the announcements of a run are made in the order ModelQuery's
\* answer, RelevanceRating's preview, RelevanceRating's rating, each at most
\* once and none out of turn; a node announces only after the nodes before
\* it have completed, and the preview is announced before the rating
\* request is sent.
C24_AnnouncementsInOrder ==
    /\ IsPrefix(SaidOf(rLog), <<SayEvent("queryLLM", "answer"),
                                SayEvent("rateMatching", "preview"),
                                SayEvent("rateMatching", "rating")>>)
    /\ FirstAt(rLog, SayEvent("rateMatching", "preview")) # 0 =>
          /\ HasKey(rResults, "queryLLM")
          /\ HasKey(rResults, "linearSearch")
    /\ FirstAt(rLog, InferEvent("rateMatching")) # 0 =>
          /\ FirstAt(rLog, SayEvent("rateMatching", "preview")) # 0
          /\ FirstAt(rLog, SayEvent("rateMatching", "preview"))
                < FirstAt(rLog, InferEvent("rateMatching"))

\* C24 witness: a run that made all three announcements has returned.
C24_Witness ==
    /\ rPc = "returned"
    /\ rFailed = {}
    /\ Len(SaidOf(rLog)) = 3
    /\ SaidOf(rLog)[1].node = "queryLLM"
    /\ SaidOf(rLog)[3].what = "rating"

\* C28: when the catalog holds the search tool and getting the connection
\* or calling the tool fails, TicketSearch returns {tool: null, parameters:
\* null, error}: the result is stored and the run goes on to the next node
\* instead of ending in the catch of the entry point; and the node returns
\* {tool, parameters} only after a tool call that succeeded.
C28_SearchFailureIsSoft ==
    /\ "search" \in rFailed =>
          /\ HasSearchEntry(rTools)
          /\ HasKey(rResults, "linearSearch")
          /\ ValueOf(rResults, "linearSearch") = SearchFailedDescriptor
          /\ ~HasKey(rResults, "linearSearchResults")
          /\ rIdx > 3
          /\ (rPc = "returned" /\ rFailed = {"search"}) => rReturn = SearchFailedDescriptor
    /\ (HasKey(rResults, "linearSearch") /\ ValueOf(rResults, "linearSearch").tool # NullValue) =>
          /\ "search" \notin rFailed
          /\ rRemote = <<"getMcpClient", "callTool">>
          /\ HasKey(rResults, "linearSearchResults")

\* C28 witness: the tool call failed, RelevanceRating ran after it and the
\* run returned the failure descriptor of the search.
C28_Witness ==
    /\ rPc = "returned"
    /\ rFailed = {"search"}
    /\ rRemote = <<"getMcpClient", "callTool">>
    /\ rReturn = SearchFailedDescriptor
    /\ FirstAt(rLog, SayEvent("rateMatching", "preview")) # 0

IsQueryRequest(e) == e = InferEvent("queryLLM")

\* C29: ModelQuery sends exactly one inference request per execution; when
\* the request fails, the failure ends the run in the catch of the entry
\* point with no announcement made, no result stored for the node and no
\* later node started.
C29_OneRequestNoRetry ==
    /\ Len(SelectSeq(rLog, IsQueryRequest)) <= 1
    /\ (rIdx > 2 \/ rPc \in {"query_wait", "query_say"}) =>
          Len(SelectSeq(rLog, IsQueryRequest)) = 1
    /\ "query" \in rFailed =>
          /\ Len(SelectSeq(rLog, IsQueryRequest)) = 1
          /\ rPc = "returned"
          /\ rReturn = ProcessingFailedDescriptor
          /\ SaidOf(rLog) = <<>>
          /\ ~HasKey(rResults, "queryLLM")
          /\ rIdx = 2
          /\ rRemote = <<>>
          /\ \A i \in 1..Len(rLog) : rLog[i].node = "queryLLM"

\* C29 witness: the inference request of ModelQuery failed.
C29_Witness ==
    /\ "query" \in rFailed
    /\ rPc = "returned"
    /\ Len(SelectSeq(rLog, IsQueryRequest)) = 1
    /\ HasKey(rResults, "processImages")

(***************************************************************************)
(* Part II: properties (continued)                                         *)
(***************************************************************************)

\* C25: a user message that finds its sender in edit mode in the channel,
\* whatever its thread, removes the edit mode in the same step, before the
\* analysis starts, and starts the analysis of the message's own text in the
\* thread the edit click recorded; the analysis card is then posted in that
\* thread.
C25_EditedMessageAnalysedInEditThread ==
    [][\A h \in Slots :
          /\ (handlers[h].kind # "message" /\ handlers'[h].kind = "message"
                /\ IsUserInEditMode(handlers'[h].user, ChannelOf(handlers'[h].thread))) =>
                LET rec == handlers'[h]
                    key == GetUserStateKey(rec.user, ChannelOf(rec.thread))
                IN  /\ rec.rule = 1
                    /\ rec.pc = "an_llm"
                    /\ key \notin DOMAIN userStates'
                    /\ ~rec.mid.edit
                    /\ rec.target = userStates[key].threadTs
                    /\ rec.text \in Texts
                    /\ rec.text # userStates[key].originalMessageText
          /\ (handlers[h].rule = 1 /\ handlers[h].pc = "an_card"
                /\ "analysis_card" \in handlers'[h].said) =>
                /\ "analysis" \in cards'[handlers[h].target]
                /\ cards'[handlers[h].thread] \subseteq
                      cards[handlers[h].thread] \cup cards'[handlers[h].target]]_vars

\* C25 witness: a message posted in another thread than the one of the edit
\* click found its sender in edit mode, and its analysis card was posted in
\* the thread of the click.
C25_Witness ==
    \E h \in Slots :
        LET rec == handlers[h]
        IN  /\ rec.kind = "message" /\ rec.rule = 1
            /\ rec.pre.edit /\ ~rec.mid.edit
            /\ rec.target # rec.thread
            /\ "analysis_card" \in rec.said
            /\ "analysis" \in cards[rec.target]
            /\ "analysis" \notin cards[rec.thread]

\* The error messages a failed getMcpClient, listTools or callTool can put
\* in the apology.
CallFailureTexts == {ConnErr.text, OtherErr.text, NotConnectedString.text, NotAvailableErr.text}

\* C26: when listTools gives a catalog without the search tool, the search
\* ends there: no further attempt and no tool call in that attempt, the
\* apology is in the thread, and its text is not one a failed call gives.
C26_ToolMissingNotRetried ==
    \A h \in Slots :
        LET rec == handlers[h]
        IN  rec.listed = "without_search" =>
                /\ rec.pc = "done"
                /\ rec.outcome = "search_failed"
                /\ rec.thrown = ToolMissingErr
                /\ rec.toolCalls < rec.attempt
                /\ "search_error" \in rec.said
                /\ rec.apology = ToolMissingErr.text
                /\ rec.apology \notin CallFailureTexts

\* C27: when the payload of the search tool is no valid structured data,
\* the search ends without another attempt, the message about the problem
\* is in the thread and holds a truncated excerpt of the raw payload, and
\* the handler marked the thread neither NoResultsPending nor
\* ResultsDisplayed.
C27_PayloadProblemReported ==
    \A h \in Slots :
        LET rec == handlers[h]
        IN  "parsing" \in rec.failed /\ "search" \in rec.acts =>
                /\ rec.pc = "done"
                /\ rec.outcome = "search_payload_problem"
                /\ "payload_problem" \in rec.said
                /\ rec.excerpt = "truncated"
                /\ rec.marked \cap {"noResults", "results"} = {}


\* C30: when two callers are in getMcpClient() at once with the connection
\* disconnected, a call that returns a client does so with mcpClient non-null
\* and isConnected set, and a caller whose own client.connect() succeeded
\* (it waits at the check after initializeMcpClient) gets the client when
\* the other caller's connect attempt fails in between: its call does not
\* throw.
C30_ConcurrentGetsBothServed ==
    [][\A h \in Slots :
         LET before == handlers[h]
             after == handlers'[h]
         IN  /\ (before.pc \in {"get", "check"} /\ after.pc \in {"cf_list", "se_list"})
                    => (isConnected' /\ mcpClient' # <<>>)
             /\ (/\ before.pc = "check"
                 /\ after # before
                 /\ \E g \in Slots \ {h} : handlers[g].getThrew = "connect_cleared")
                    => after.pc \in {"cf_list", "se_list"}]_vars

\* A step of handler h other than the settling of its own client.connect():
\* the only such steps that write the connection state call
\* markAsDisconnected (app.ts:727, 962, 1727, 1912).
StepOutsideConnect(h) ==
    /\ handlers'[h] # handlers[h]
    /\ handlers[h].pc # "connect"

\* C31: once a connect attempt has succeeded, the connection stays as it is
\* (isConnected set, the same client) until markAsDisconnected is called: a
\* step that changes it is never the settling of a connect attempt, neither
\* of the one made at module load nor of a caller of getMcpClient.
C31_ConnectedUntilMarked ==
    [][(isConnected /\ mcpClient # <<>>)
         => \/ (isConnected' /\ mcpClient' = mcpClient)
            \/ \E h \in Slots : StepOutsideConnect(h)]_vars

\* The tracking entry a message handler that took branch rule started from,
\* as a field of its snapshots.
EntryOfRule(snapshot, rule) ==
    CASE rule = 1 -> snapshot.edit
      [] rule = 2 -> snapshot.analysis
      [] rule = 3 -> snapshot.noResults
      [] OTHER -> snapshot.results

\* C32: a message handler that takes its branch from a tracking entry
\* (EditPending, AnalysisDisplayed, NoResultsPending, ResultsDisplayed) found
\* the entry when it was dispatched and has removed it when it reaches its
\* first await: the step that dispatches it leaves no entry of that key
\* for a message that arrives while it is being processed.
C32_EntryConsumedOnce ==
    [][\A h \in Slots :
         (/\ handlers[h].pc = "idle"
          /\ handlers'[h].kind = "message" /\ handlers'[h].rule \in 1..4) =>
            LET rec == handlers'[h]
            IN  /\ EntryOfRule(rec.pre, rec.rule)
                /\ ~EntryOfRule(rec.mid, rec.rule)
                /\ rec.pc # "done"
                /\ ~EntryOfRule(SnapshotOf(analysisThreads', noResultsThreads',
                                           resultsThreads', userStates',
                                           rec.thread, rec.user), rec.rule)]_vars

\* C32 witness: a message started a re-analysis from the AnalysisDisplayed
\* entry of a thread, and while it is still being processed a second
\* message of the same thread has been dispatched, which found no entry.
C32_Witness ==
    \E h, g \in Slots :
        /\ h # g
        /\ InFlight(h) /\ InFlight(g)
        /\ handlers[h].kind = "message" /\ handlers[h].rule = 2
        /\ handlers[g].kind = "message" /\ handlers[g].thread = handlers[h].thread
        /\ handlers[g].rule = 5
        /\ ~handlers[g].pre.analysis

\* What is tracked for thread t: its entries in the three thread maps and
\* the edit states that record it.
TrackedFor(an, nr, rs, us, t) ==
    [analysis |-> IF t \in DOMAIN an THEN <<an[t]>> ELSE <<>>,
     noResults |-> IF t \in DOMAIN nr THEN <<nr[t]>> ELSE <<>>,
     results |-> IF t \in DOMAIN rs THEN <<rs[t]>> ELSE <<>>,
     edit |-> {<<k, us[k]>> : k \in {x \in DOMAIN us : us[x].threadTs = t}}]

\* A step leaves what is tracked for thread t as it is.
TrackingKept(t) ==
    TrackedFor(analysisThreads', noResultsThreads', resultsThreads', userStates', t)
        = TrackedFor(analysisThreads, noResultsThreads, resultsThreads, userStates, t)

\* The record of the handler taking a step, with the thread its event
\* belongs to (for a dispatch, the record the step creates).
Stepping(h) == IF handlers[h].pc = "idle" THEN handlers'[h] ELSE handlers[h]

\* C33 (as stated): a step of the handler of an event of thread T leaves the
\* tracking recorded for every other thread T' as it is.
C33_OtherThreadsUntouched ==
    [][\A h \in Slots :
         handlers'[h] # handlers[h] =>
            \A t \in Threads \ {Stepping(h).thread} : TrackingKept(t)]_vars

\* What the three thread maps hold for thread t.
ThreadEntries(an, nr, rs, t) ==
    [analysis |-> IF t \in DOMAIN an THEN <<an[t]>> ELSE <<>>,
     noResults |-> IF t \in DOMAIN nr THEN <<nr[t]>> ELSE <<>>,
     results |-> IF t \in DOMAIN rs THEN <<rs[t]>> ELSE <<>>]

\* C33 (amended): a step of the handler of an event of thread T leaves the
\* AnalysisDisplayed, NoResultsPending and ResultsDisplayed tracking of
\* every other thread T' as it is, except that a message handled in edit
\* mode marks AnalysisDisplayed for the thread recorded at the edit click.
\* (The EditPending state is kept per user and channel, not per thread.)
C33_OtherThreadsUntouchedButEditThread ==
    [][\A h \in Slots :
         handlers'[h] # handlers[h] =>
            LET rec == Stepping(h)
                before == [t \in Threads |->
                             ThreadEntries(analysisThreads, noResultsThreads,
                                           resultsThreads, t)]
                after == [t \in Threads |->
                            ThreadEntries(analysisThreads', noResultsThreads',
                                          resultsThreads', t)]
            IN  \A t \in Threads \ {rec.thread} :
                  \/ after[t] = before[t]
                  \/ /\ rec.kind = "message" /\ rec.rule = 1
                     /\ t = rec.target
                     /\ rec.pc = "an_mark"
                     /\ after[t] = [before[t] EXCEPT
                                      !.analysis = <<[channelId |-> ChannelOf(t)]>>]]_vars

\* C33 witness: a handler of an event of one thread has set or cleared
\* tracking and ended while another thread, which is not the one an edit
\* recorded, is tracked.
C33_Witness ==
    \E h \in Slots :
        /\ handlers[h].pc = "done"
        /\ handlers[h].post # handlers[h].pre
        /\ handlers[h].target = handlers[h].thread
        /\ \E t \in Threads \ {handlers[h].thread} :
             t \in DOMAIN analysisThreads \cup DOMAIN noResultsThreads \cup DOMAIN resultsThreads


\* C35: a message that carries a bot identity, has no user, or has a subtype
\* other than file_share is dropped by the guards of the message handler:
\* its handler changes no tracking state and shows no card, sends nothing
\* and starts no analysis, refinement or search.
C35_IgnorableMessageDropped ==
    [][\A h \in Slots :
         handlers'[h].ignorable =>
            /\ handlers'[h].kind = "dropped"
            /\ handlers'[h].pc = "done"
            /\ handlers'[h].said = {} /\ handlers'[h].acts = {} /\ handlers'[h].marked = {}
            /\ handlers'[h].getCalls = 0 /\ handlers'[h].toolCalls = 0
            /\ handlers'[h].post = handlers'[h].pre
            /\ handlers[h].pc = "idle" =>
                  UNCHANGED <<analysisThreads, noResultsThreads, resultsThreads,
                              userStates, cards>>]_vars

\* C35 witness: a message of a bot arrived in a thread that is
\* AnalysisDisplayed, and the thread is still AnalysisDisplayed after it.
C35_Witness ==
    \E h \in Slots :
        /\ handlers[h].kind = "dropped" /\ handlers[h].ignorable
        /\ handlers[h].pc = "done"
        /\ handlers[h].pre.analysis /\ handlers[h].post.analysis
        /\ handlers[h].thread \in DOMAIN analysisThreads

\* C37: wherever handlers can interleave, isConnected is set only with a
\* client cached; a connect attempt that fails - the one made at module
\* load or one of a getMcpClient() call - leaves isConnected unset and no
\* client cached, and a getMcpClient() call that finds isConnected unset
\* starts a connect.
C37_FlagImpliesHandle ==
    [][/\ isConnected' => mcpClient' # <<>>
       /\ bootPc' # bootPc =>
             \/ isConnected' /\ mcpClient' = <<"boot">>
             \/ ~isConnected' /\ mcpClient' = <<>>
       /\ \A h \in Slots :
            /\ (handlers[h].pc = "connect" /\ handlers'[h] # handlers[h]
                    /\ handlers'[h].pc # "check")
                  => (~isConnected' /\ mcpClient' = <<>>)
            /\ (handlers[h].pc = "get" /\ handlers'[h] # handlers[h] /\ ~isConnected)
                  => handlers'[h].pc = "connect"]_vars

\* C37 witness: a connect attempt failed after another attempt had set
\* isConnected, and the state is disconnected with no client cached.
C37_Witness ==
    \E h \in Slots :
        /\ handlers[h].getThrew = "connect_cleared"
        /\ ~isConnected
        /\ mcpClient = <<>>

(***************************************************************************)
(* Part III: properties (continued)                                        *)
(***************************************************************************)
\* The steps of a run that throw into the catch of processMessageWithLLM
\* (a failed search is returned as a value by TicketSearch instead).
ThrownSteps == rFailed \ {"search"}

\* C34: processMessageWithLLM always returns a value: when the prompt read
\* or a node throws it returns {tool: null, parameters: null, error}, also
\* when the rating fails after a successful search; a non-null tool is
\* returned only when all four nodes have stored a result and no step
\* failed.
C34_EntryPointNeverThrows ==
    rPc = "returned" =>
        /\ rReturn # NullValue
        /\ DOMAIN rReturn \in {{"tool", "parameters"}, {"tool", "parameters", "error"}}
        /\ ThrownSteps # {} => rReturn = ProcessingFailedDescriptor
        /\ rReturn.tool # NullValue =>
              /\ rFailed = {}
              /\ \A id \in {"processImages", "queryLLM", "linearSearch", "rateMatching"} :
                    HasKey(rResults, id)

\* C34 witness: the search succeeded, the rating request failed, and the run
\* returned the error result.
C34_Witness ==
    /\ rPc = "returned"
    /\ rFailed = {"rate"}
    /\ HasKey(rResults, "linearSearch")
    /\ ValueOf(rResults, "linearSearch").tool # NullValue
    /\ rReturn.tool = NullValue
    /\ rReturn.error = "LLM processing failed"


\* TicketSearch has returned an error descriptor: the catalog holds no search
\* tool, or getting the client or calling the tool failed.
SearchSoftFailed ==
    /\ HasKey(rResults, "linearSearch")
    /\ ValueOf(rResults, "linearSearch").tool = NullValue

RatingRequested == FirstAt(rLog, InferEvent("rateMatching")) # 0

\* C36: when TicketSearch has returned an error descriptor the run goes on
\* with RelevanceRating, which announces the preview and, once the
\* announcement is made, returns its fixed text with no inference request
\* sent, so that the run returns the descriptor of the search; a rating
\* inference request is sent only when TicketSearch has stored a raw search
\* result.
C36_SoftFailedSearchIsNotRated ==
    /\ SearchSoftFailed =>
          /\ rPc \in {"rate", "rate_preview", "returned"}
          /\ ~RatingRequested
          /\ rPc # "rate" => FirstAt(rLog, SayEvent("rateMatching", "preview")) # 0
          /\ (rPc = "returned" /\ "rate_preview" \notin rFailed) =>
                /\ HasKey(rResults, "rateMatching")
                /\ ValueOf(rResults, "rateMatching") = [kind |-> "no_tickets_text"]
                /\ rReturn = ValueOf(rResults, "linearSearch")
    /\ RatingRequested =>
          /\ HasKey(rResults, "linearSearchResults")
          /\ "search" \notin rFailed
          /\ ValueOf(rResults, "linearSearch").tool # NullValue

\* C36 witness: the catalog held no search tool, RelevanceRating announced
\* the preview and returned, and the run returned the descriptor of the
\* unavailable search.
C36_Witness ==
    /\ rPc = "returned"
    /\ ~HasSearchEntry(rTools)
    /\ SearchSoftFailed
    /\ FirstAt(rLog, SayEvent("rateMatching", "preview")) # 0
    /\ HasKey(rResults, "rateMatching")
    /\ rReturn = UnavailableDescriptor


\* C39: a failed post of the edit prompt leaves the clicking user out of edit
\* mode, a posted prompt leaves the user in edit mode, and while a posted
\* prompt waits for the user's next message the user stays in edit mode.
C39_EditPendingUntilNextMessage ==
    /\ [][\A h \in Slots :
            handlers[h].pc = "ed_post" /\ handlers'[h].pc = "done" =>
               LET rec == handlers[h]
                   key == GetUserStateKey(rec.user, ChannelOf(rec.thread))
               IN  /\ handlers'[h].outcome = "edit_failed" => key \notin DOMAIN userStates'
                   /\ handlers'[h].outcome = "edit_pending" => userStates' = userStates]_vars
    /\ [][\A u \in Users, t \in Threads :
            (/\ "edit_prompt" \in cards[t] /\ "edit_prompt" \in cards'[t]
             /\ IsUserInEditMode(u, ChannelOf(t)))
               => GetUserStateKey(u, ChannelOf(t)) \in DOMAIN userStates']_vars
====
